---- MODULE Spec2Model ----
(***************************************************************************)
(* Provider intelligence service: the TTL cache of intelligence.Service,    *)
(* the bounded fan-out of akash.Client.GetMultipleProviderInfo and the      *)
(* per-provider pipeline of akash.Client.GetProviderInfo.                   *)
(*                                                                         *)
(* Time is a discrete clock `now` counted in ticks of TickMs milliseconds.  *)
(* Only waiting (for a limiter slot, for a network answer) takes time:      *)
(* the clock advances only when no program step is due. Measured durations  *)
(* (time.Since) are kept in milliseconds. Scores are kept in thousandths.   *)
(*                                                                         *)
(* The providers of the outside world are simulated: `world` gives, for     *)
(* each address, what its ledger query and its status probe answer and      *)
(* after how long.                                                          *)
(*                                                                         *)
(* The sections guarded by cache.mutex are single actions: the lock makes   *)
(* them atomic with respect to each other.                                  *)
(***************************************************************************)
EXTENDS Integers, Sequences, FiniteSets, TLC

(* ---------------------------------------------------------------- bounds *)

\* callers running concurrently against one Service / one Client
NumCalls == 2
\* longest address list of a GetProviderIntelligence call
MaxBatch == 2
\* addresses the service-level callers ask about: 1..MaxAddr
MaxAddr == 2
\* length of the address list of the long fan-out
FanOut == 5
\* the clock of the long fan-out stops here
MaxTime == 17
\* the clock of the service-level callers stops here
ServiceTime == 4
\* the caller of the long fan-out
DirectCaller == 1
\* Config.CacheTTL, in ticks
CacheTTL == 2
\* Config.MaxConcurrent ranges over 1..MaxConfigured
MaxConfigured == 1
\* weight of the limiter. NewClient builds it with semaphore.NewWeighted(10);
\* the model keeps the weight as this definition, scaled down so that the
\* callers above can exhaust it.
SemaphoreSize == 2
\* keys of the cache that the goroutines of SpecLock work on: 1..LockAddr
LockAddr == 2
\* the clock of SpecLock stops here
LockTime == 4

\* the provider_addresses array of a tool request has at most MaxArgs elements
MaxArgs == 3

\* addresses the callers of SpecSelect ask about: 1..MaxSelect
MaxSelect == 3
\* the clock of SpecSelect stops here
SelectTime == 4

(* ----------------------------------------------------- program constants *)

\* one tick of the clock, in milliseconds
TickMs == 1000
\* context.WithTimeout(ctx, 15*time.Second), in ticks
BatchTimeout == 15
\* context.WithTimeout(ctx, 8*time.Second), in ticks
ProviderTimeout == 8
\* context.WithTimeout(ctx, 3*time.Second), in ticks
StatusTimeout == 3
\* time.Time{}, the zero time; the clock starts after it
ZeroTime == 0

Calls == 1..NumCalls
Addrs == 1..FanOut
ServiceAddrs == 1..MaxAddr

Min(a, b) == IF a <= b THEN a ELSE b

(* ------------------------------------------------------------ data types *)

\* a nil *ProviderInfo, a nil *ClusterStatus, an absent map key
NilInfo == [nil |-> TRUE]
NilCluster == [nil |-> TRUE]
NoEntry == [nil |-> TRUE]

\* no SelectionCriteria: the call is not one of SelectOptimalProvider; no
\* ProviderSelection yet
NoCriteria == [nil |-> TRUE]
NoSelection == [nil |-> TRUE]

\* a nil or empty map[string]string
NoAttrs == [k \in {} |-> ""]

\* ClusterStatus as queryProviderStatus builds it
Cluster(leases, nodes, cpu, mem) ==
    [ActiveLeases |-> leases, AvailableNodes |-> nodes,
     AvailableCPU |-> cpu, AvailableMemory |-> mem]

\* &ProviderInfo{Address: address, LastSeen: time.Now()}: every other field zero
NewInfo(address, t) ==
    [Address |-> address, HostURI |-> "", Attributes |-> NoAttrs, LastSeen |-> t,
     StatusEndpoint |-> "", ClusterInfo |-> NilCluster, ResponseTime |-> 0,
     HealthScore |-> 0, Error |-> "", BlockchainQueryTime |-> 0,
     StatusQueryTime |-> 0]

\* &ProviderInfo{Address, LastSeen, Error, HealthScore: 0.0}
ErrorInfo(address, t, msg) == [NewInfo(address, t) EXCEPT !.Error = msg]

(* ---------------------------------------------------------- health score *)

\* calculateHealthScore with the top lease band worth 0.5 instead of 0.4
calculateHealthScoreGenerous(info) ==
    200
    + (IF info.StatusQueryTime > 0
       THEN IF info.StatusQueryTime < 500 THEN 300
            ELSE IF info.StatusQueryTime < 1000 THEN 250
            ELSE IF info.StatusQueryTime < 2000 THEN 200
            ELSE IF info.StatusQueryTime < 3000 THEN 150 ELSE 100
       ELSE 0)
    + (IF info.ClusterInfo # NilCluster
       THEN IF info.ClusterInfo.ActiveLeases > 100 THEN 500
            ELSE IF info.ClusterInfo.ActiveLeases > 0 THEN 100 ELSE 0
       ELSE 0)
    + (IF info.ClusterInfo # NilCluster /\ info.ClusterInfo.AvailableNodes > 0
       THEN 100 ELSE 0)

\* calculateHealthScore with every band taking in its boundary
calculateHealthScoreInclusive(info) ==
    200
    + (IF info.StatusQueryTime > 0
       THEN IF info.StatusQueryTime <= 500 THEN 300
            ELSE IF info.StatusQueryTime <= 1000 THEN 250
            ELSE IF info.StatusQueryTime <= 2000 THEN 200
            ELSE IF info.StatusQueryTime <= 3000 THEN 150 ELSE 100
       ELSE 0)
    + (IF info.ClusterInfo # NilCluster
       THEN IF info.ClusterInfo.ActiveLeases >= 100 THEN 400
            ELSE IF info.ClusterInfo.ActiveLeases >= 50 THEN 350
            ELSE IF info.ClusterInfo.ActiveLeases >= 20 THEN 300
            ELSE IF info.ClusterInfo.ActiveLeases >= 10 THEN 250
            ELSE IF info.ClusterInfo.ActiveLeases >= 5 THEN 200
            ELSE IF info.ClusterInfo.ActiveLeases > 0 THEN 100 ELSE 0
       ELSE 0)
    + (IF info.ClusterInfo # NilCluster /\ info.ClusterInfo.AvailableNodes > 0
       THEN 100 ELSE 0)

\* calculateHealthScore, in thousandths; durations in milliseconds
calculateHealthScore(info) ==
    LET base == 200
        rt == IF info.StatusQueryTime > 0
              THEN IF info.StatusQueryTime < 500 THEN 300
                   ELSE IF info.StatusQueryTime < 1000 THEN 250
                   ELSE IF info.StatusQueryTime < 2000 THEN 200
                   ELSE IF info.StatusQueryTime < 3000 THEN 150
                   ELSE 100
              ELSE 0
        ls == IF info.ClusterInfo # NilCluster
              THEN LET leases == info.ClusterInfo.ActiveLeases
                   IN  IF leases > 100 THEN 400
                       ELSE IF leases > 50 THEN 350
                       ELSE IF leases > 20 THEN 300
                       ELSE IF leases > 10 THEN 250
                       ELSE IF leases > 5 THEN 200
                       ELSE IF leases > 0 THEN 100
                       ELSE 0
              ELSE 0
        nd == IF info.ClusterInfo # NilCluster /\ info.ClusterInfo.AvailableNodes > 0
              THEN 100 ELSE 0
    IN  base + rt + ls + nd

\* calculatePartialHealthScore that credits a tier attribute of any value
calculatePartialHealthScoreAnyTier(info) ==
    LET sum == 200
               + (IF info.BlockchainQueryTime > 0 /\ info.BlockchainQueryTime < 2000
                  THEN 100 ELSE 0)
               + (IF "tier" \in DOMAIN info.Attributes THEN 100 ELSE 0)
               + (IF "capabilities/gpu/vendor/nvidia" \in DOMAIN info.Attributes
                  THEN 50 ELSE 0)
               + (IF "region" \in DOMAIN info.Attributes THEN 50 ELSE 0)
    IN  IF info.Error # ""
        THEN IF sum - 100 < 0 THEN 0 ELSE sum - 100
        ELSE sum

\* calculatePartialHealthScore, in thousandths
calculatePartialHealthScore(info) ==
    LET base == 200
        bq == IF info.BlockchainQueryTime > 0 /\ info.BlockchainQueryTime < 2000
              THEN 100 ELSE 0
        tier == IF "tier" \in DOMAIN info.Attributes
                   /\ info.Attributes["tier"] = "enterprise"
                THEN 100 ELSE 0
        gpu == IF "capabilities/gpu/vendor/nvidia" \in DOMAIN info.Attributes
               THEN 50 ELSE 0
        region == IF "region" \in DOMAIN info.Attributes THEN 50 ELSE 0
        sum == base + bq + tier + gpu + region
    IN  IF info.Error # ""
        THEN IF sum - 100 < 0 THEN 0 ELSE sum - 100
        ELSE sum

(* --------------------------------------------------------------- scoring *)

\* Weights, in thousandths; SelectionCriteria
Weights(price, reliability, performance, geographic) ==
    [Price |-> price, Reliability |-> reliability,
     Performance |-> performance, Geographic |-> geographic]

SelectionCriteria(weights, priority) ==
    [Priority |-> priority, Budget |-> 0, Weights |-> weights]

\* criteria.Budget = budgetFloat
WithBudget(criteria, budget) == [criteria EXCEPT !.Budget = budget]

\* calculatePerformanceScore with the neutral 0.5 of the geographic and the
\* price score for a record without any measurement
calculatePerformanceScoreNeutral(provider) ==
    LET rt == IF provider.StatusQueryTime > 0
              THEN IF provider.StatusQueryTime < 300 THEN 500
                   ELSE IF provider.StatusQueryTime < 500 THEN 450
                   ELSE IF provider.StatusQueryTime < 1000 THEN 400
                   ELSE IF provider.StatusQueryTime < 2000 THEN 300
                   ELSE IF provider.StatusQueryTime < 3000 THEN 200
                   ELSE 100
              ELSE 0
        nodes == IF provider.ClusterInfo # NilCluster
                    /\ provider.ClusterInfo.AvailableNodes > 0
                 THEN 150 ELSE 0
        cpu == IF provider.ClusterInfo # NilCluster
                  /\ provider.ClusterInfo.AvailableCPU > 1000
               THEN 75 ELSE 0
        mem == IF provider.ClusterInfo # NilCluster
                  /\ provider.ClusterInfo.AvailableMemory > 1024 * 1024 * 1024
               THEN 75 ELSE 0
        bq == IF provider.BlockchainQueryTime > 0 /\ provider.BlockchainQueryTime < 2000
              THEN 200
              ELSE IF provider.BlockchainQueryTime > 0 /\ provider.BlockchainQueryTime < 5000
              THEN 100 ELSE 0
    IN  IF provider.StatusQueryTime = 0 /\ provider.BlockchainQueryTime = 0
           /\ provider.ClusterInfo = NilCluster
        THEN 500
        ELSE rt + nodes + cpu + mem + bq

\* calculatePerformanceScore, in thousandths
calculatePerformanceScore(provider) ==
    LET rt == IF provider.StatusQueryTime > 0
              THEN IF provider.StatusQueryTime < 300 THEN 500
                   ELSE IF provider.StatusQueryTime < 500 THEN 450
                   ELSE IF provider.StatusQueryTime < 1000 THEN 400
                   ELSE IF provider.StatusQueryTime < 2000 THEN 300
                   ELSE IF provider.StatusQueryTime < 3000 THEN 200
                   ELSE 100
              ELSE 0
        nodes == IF provider.ClusterInfo # NilCluster
                    /\ provider.ClusterInfo.AvailableNodes > 0
                 THEN 150 ELSE 0
        cpu == IF provider.ClusterInfo # NilCluster
                  /\ provider.ClusterInfo.AvailableCPU > 1000
               THEN 75 ELSE 0
        mem == IF provider.ClusterInfo # NilCluster
                  /\ provider.ClusterInfo.AvailableMemory > 1024 * 1024 * 1024
               THEN 75 ELSE 0
        bq == IF provider.BlockchainQueryTime > 0 /\ provider.BlockchainQueryTime < 2000
              THEN 200
              ELSE IF provider.BlockchainQueryTime > 0 /\ provider.BlockchainQueryTime < 5000
              THEN 100 ELSE 0
    IN  rt + nodes + cpu + mem + bq

\* calculateGeographicScore with a datacenter bonus of 0.1
calculateGeographicScoreWide(provider) ==
    LET attrs == provider.Attributes
        region == IF "region" \in DOMAIN attrs
                  THEN CASE attrs["region"] \in {"us-west-1", "us-west-2"} -> 950
                         [] attrs["region"] \in {"us-east-1", "us-east-2"} -> 900
                         [] attrs["region"] = "us-central-1" -> 850
                         [] attrs["region"] \in {"eu-west-1", "eu-central-1"} -> 750
                         [] attrs["region"] \in {"ap-southeast-1", "ap-northeast-1"} -> 700
                         [] OTHER -> 600
                  ELSE 500
    IN  IF "datacenter" \in DOMAIN attrs THEN region + 100 ELSE region

\* calculateGeographicScore, in thousandths
calculateGeographicScore(provider) ==
    LET attrs == provider.Attributes
        region == IF "region" \in DOMAIN attrs
                  THEN CASE attrs["region"] \in {"us-west-1", "us-west-2"} -> 950
                         [] attrs["region"] \in {"us-east-1", "us-east-2"} -> 900
                         [] attrs["region"] = "us-central-1" -> 850
                         [] attrs["region"] \in {"eu-west-1", "eu-central-1"} -> 750
                         [] attrs["region"] \in {"ap-southeast-1", "ap-northeast-1"} -> 700
                         [] OTHER -> 600
                  ELSE 500
    IN  IF "datacenter" \in DOMAIN attrs THEN region + 50 ELSE region

\* calculatePriceScore that takes the GPU attribute off the clusterless
\* default only
calculatePriceScoreGpuDefault(provider) ==
    LET gpu == IF "capabilities/gpu/vendor/nvidia" \in DOMAIN provider.Attributes
               THEN 100 ELSE 0
        score == IF provider.ClusterInfo # NilCluster
                 THEN LET leases == provider.ClusterInfo.ActiveLeases
                      IN  IF leases > 100 THEN 400
                          ELSE IF leases > 50 THEN 450
                          ELSE IF leases > 20 THEN 500
                          ELSE IF leases > 5 THEN 550
                          ELSE 600
                 ELSE 500 - gpu
    IN  IF score < 0 THEN 0 ELSE IF score > 1000 THEN 1000 ELSE score

\* calculatePriceScore, in thousandths
calculatePriceScore(provider) ==
    LET base == IF provider.ClusterInfo # NilCluster
                THEN LET leases == provider.ClusterInfo.ActiveLeases
                     IN  IF leases > 100 THEN 400
                         ELSE IF leases > 50 THEN 450
                         ELSE IF leases > 20 THEN 500
                         ELSE IF leases > 5 THEN 550
                         ELSE 600
                ELSE 500
        score == IF "capabilities/gpu/vendor/nvidia" \in DOMAIN provider.Attributes
                 THEN base - 100 ELSE base
    IN  IF score < 0 THEN 0 ELSE IF score > 1000 THEN 1000 ELSE score

\* calculatePriorityBonus, in thousandths
calculatePriorityBonus(provider, priority) ==
    CASE priority = "reliability" ->
            IF provider.HealthScore > 800 THEN 200
            ELSE IF provider.HealthScore > 600 THEN 100 ELSE 0
      [] priority = "performance" ->
            IF provider.StatusQueryTime > 0 /\ provider.StatusQueryTime < 500 THEN 200
            ELSE IF provider.StatusQueryTime > 0 /\ provider.StatusQueryTime < 1000
            THEN 100 ELSE 0
      [] priority = "cost" ->
            IF provider.ClusterInfo # NilCluster /\ provider.ClusterInfo.ActiveLeases < 20
            THEN 200
            ELSE IF provider.ClusterInfo # NilCluster
                    /\ provider.ClusterInfo.ActiveLeases < 50
            THEN 100 ELSE 0
      [] OTHER -> 0

\* the ScoreBreakdown of scoreProviderWithBreakdown, in thousandths
Breakdown(provider, criteria) ==
    [HealthScore |-> provider.HealthScore,
     PerformanceScore |-> calculatePerformanceScore(provider),
     GeographicScore |-> calculateGeographicScore(provider),
     PriceScore |-> calculatePriceScore(provider),
     PriorityBonus |-> calculatePriorityBonus(provider, criteria.Priority)]

\* WeightedScore that takes the price component as a cost
WeightedScoreCostly(b, w) ==
    b.HealthScore * w.Reliability + b.PerformanceScore * w.Performance
    + b.GeographicScore * w.Geographic - b.PriceScore * w.Price
    + b.PriorityBonus * 1000

\* the score of scoreProviderWithBreakdown with the weights w, in
\* millionths: a score in thousandths times a weight in thousandths
WeightedScore(b, w) ==
    b.HealthScore * w.Reliability + b.PerformanceScore * w.Performance
    + b.GeographicScore * w.Geographic + b.PriceScore * w.Price
    + b.PriorityBonus * 1000

\* scoreProviderWithBreakdown with the weights brought to the sum 1 first
scoreProviderNormalized(provider, criteria) ==
    LET w == criteria.Weights
        sum == w.Price + w.Reliability + w.Performance + w.Geographic
        n(x) == IF sum = 0 THEN 0 ELSE (x * 1000) \div sum
    IN  WeightedScore(Breakdown(provider, criteria),
                      Weights(n(w.Price), n(w.Reliability),
                              n(w.Performance), n(w.Geographic)))

\* scoreProviderWithBreakdown: the score, in millionths
scoreProviderWithBreakdown(provider, criteria) ==
    WeightedScore(Breakdown(provider, criteria), criteria.Weights)

\* ScoredProvider{Provider, Score, Breakdown}
ScoredProvider(provider, criteria) ==
    [Provider |-> provider,
     Score |-> scoreProviderWithBreakdown(provider, criteria),
     Breakdown |-> Breakdown(provider, criteria)]

(* ------------------------------------------------------------- selection *)

\* the scoring loop of SelectOptimalProvider: scoredProviders before the sort
Scored(providers, criteria) ==
    [i \in 1..Len(providers) |-> ScoredProvider(providers[i], criteria)]

\* Rankings of a sort with less(i, j) = Score[i] < Score[j]
RankingsAscending(scored) ==
    LET n == Len(scored)
        perms == {f \in [1..n -> 1..n] : \A i, j \in 1..n : f[i] = f[j] => i = j}
    IN  {[i \in 1..n |-> scored[f[i]]] : f \in
            {g \in perms : \A i \in 1..n : \A j \in 1..n :
                i < j => scored[g[i]].Score <= scored[g[j]].Score}}

\* scoredProviders after sort.Slice with less(i, j) = Score[i] > Score[j]:
\* a permutation in descending order of score. The sort is not stable: the
\* order of records of equal score is any.
Rankings(scored) ==
    LET n == Len(scored)
        perms == {f \in [1..n -> 1..n] : \A i, j \in 1..n : f[i] = f[j] => i = j}
    IN  {[i \in 1..n |-> scored[f[i]]] : f \in
            {g \in perms : \A i \in 1..n : \A j \in 1..n :
                i < j => scored[g[i]].Score >= scored[g[j]].Score}}

\* (scoreDiff/secondBest.Score)*100 in float64, kept in whole percents; a
\* division by zero is no panic but +Inf, or NaN for 0/0
Advantage(scoreDiff, second) ==
    IF second = 0 THEN (IF scoreDiff = 0 THEN "NaN" ELSE "+Inf")
    ELSE (scoreDiff * 100) \div second

\* buildDetailedReasoning: the lines of the text, each as its format and
\* its arguments
buildDetailedReasoning(best, all, criteria) ==
    LET info == best.Provider
        line(cond, l) == IF cond THEN <<l>> ELSE <<>>
    IN  <<<<"Selected provider", info.Address, best.Score>>,
          <<"Health/Reliability", best.Breakdown.HealthScore, criteria.Weights.Reliability>>,
          <<"Performance", best.Breakdown.PerformanceScore, criteria.Weights.Performance>>,
          <<"Geographic", best.Breakdown.GeographicScore, criteria.Weights.Geographic>>,
          <<"Price", best.Breakdown.PriceScore, criteria.Weights.Price>>>>
        \o line(best.Breakdown.PriorityBonus > 0,
                <<"Priority Bonus", criteria.Priority, best.Breakdown.PriorityBonus>>)
        \o line(info.ClusterInfo # NilCluster,
                <<"active leases", IF info.ClusterInfo # NilCluster
                                   THEN info.ClusterInfo.ActiveLeases ELSE 0>>)
        \o line(info.StatusQueryTime > 0,
                <<"status endpoint response time", info.StatusQueryTime>>)
        \o line(info.BlockchainQueryTime > 0,
                <<"blockchain query time", info.BlockchainQueryTime>>)
        \o line(info.ClusterInfo # NilCluster /\ info.ClusterInfo.AvailableNodes > 0,
                <<"available nodes", IF info.ClusterInfo # NilCluster
                                     THEN info.ClusterInfo.AvailableNodes ELSE 0>>)
        \o line("region" \in DOMAIN info.Attributes,
                <<"Located in region", IF "region" \in DOMAIN info.Attributes
                                       THEN info.Attributes["region"] ELSE "">>)
        \o line("capabilities/gpu/vendor/nvidia" \in DOMAIN info.Attributes,
                <<"NVIDIA GPU capabilities available">>)
        \o line(info.ClusterInfo # NilCluster
                /\ (info.ClusterInfo.AvailableCPU > 0 \/ info.ClusterInfo.AvailableMemory > 0),
                <<"Available resources",
                  IF info.ClusterInfo # NilCluster THEN info.ClusterInfo.AvailableCPU ELSE 0,
                  IF info.ClusterInfo # NilCluster THEN info.ClusterInfo.AvailableMemory ELSE 0>>)
        \o line(Len(all) > 1, <<"Ranked #1 out of", Len(all)>>)
        \o line(Len(all) > 1,
                <<"Score advantage over #2",
                  IF Len(all) > 1 THEN best.Score - all[2].Score ELSE 0,
                  IF Len(all) > 1
                  THEN Advantage(best.Score - all[2].Score, all[2].Score) ELSE 0>>)
        \o line(info.Error # "", <<"Note", info.Error>>)

\* what SelectOptimalProvider returns: an error and no selection, or
\* &ProviderSelection{...} (with the sorted scoredProviders it was built from)
SelectionError(msg) == [err |-> msg]

\* ProviderSelection built from the last of the sorted scoredProviders
ProviderSelectionOfLast(ranked, providers, criteria) ==
    [err |-> "",
     SelectedProvider |-> ranked[Len(ranked)].Provider.Address,
     Score |-> ranked[Len(ranked)].Score,
     Reasoning |-> buildDetailedReasoning(ranked[Len(ranked)], ranked, criteria),
     AllProviders |-> providers,
     Criteria |-> criteria,
     scoredProviders |-> ranked]

ProviderSelection(ranked, providers, criteria) ==
    [err |-> "",
     SelectedProvider |-> ranked[1].Provider.Address,
     Score |-> ranked[1].Score,
     Reasoning |-> buildDetailedReasoning(ranked[1], ranked, criteria),
     AllProviders |-> providers,
     Criteria |-> criteria,
     scoredProviders |-> ranked]

\* Selections that takes a batch of failed records only for no data at all
SelectionsOfUsable(providers, err, criteria) ==
    IF criteria = NoCriteria THEN {NoSelection}
    ELSE IF err # "" THEN {SelectionError("failed to get provider intelligence")}
    ELSE IF \A i \in DOMAIN providers : providers[i].Error # ""
    THEN {SelectionError("no provider data available")}
    ELSE {ProviderSelection(r, providers, criteria) : r \in Rankings(Scored(providers, criteria))}

\* SelectOptimalProvider from the return of GetProviderIntelligence on: the
\* results it can return
Selections(providers, err, criteria) ==
    IF criteria = NoCriteria THEN {NoSelection}
    ELSE IF err # "" THEN {SelectionError("failed to get provider intelligence")}
    ELSE IF Len(providers) = 0 THEN {SelectionError("no provider data available")}
    ELSE {ProviderSelection(r, providers, criteria) : r \in Rankings(Scored(providers, criteria))}

(* -------------------------------------------------- the simulated world *)

\* one provider of the outside world: what the ledger answers for it (ok or
\* an error) after ledgerMs, and what its status endpoint answers after
\* statusMs. An answer that would come after the deadline of the context of
\* the call never comes: the call ends at the deadline with the context's
\* error.
Provider(lok, lms, host, attrs, sok, sms, cl) ==
    [ledgerOk |-> lok, ledgerMs |-> lms, host |-> host, attrs |-> attrs,
     statusOk |-> sok, statusMs |-> sms, cluster |-> cl]

WestAttrs == [k \in {"region"} |-> "us-west-1"]
EnterpriseAttrs == [k \in {"tier"} |-> "enterprise"]

\* the ledger never answers
LedgerHangs == Provider(FALSE, 60000, "", NoAttrs, FALSE, 0, NilCluster)
\* the ledger answers with an error
LedgerFails == Provider(FALSE, 400, "", NoAttrs, FALSE, 0, NilCluster)
\* registered without a host URI
NoHost == Provider(TRUE, 1200, "", EnterpriseAttrs, FALSE, 0, NilCluster)
\* status endpoint answers with an error
StatusFails == Provider(TRUE, 2500, "https://p", EnterpriseAttrs, FALSE, 300, NilCluster)
\* status endpoint never answers
StatusHangs == Provider(TRUE, 200, "https://p", WestAttrs, FALSE, 60000, NilCluster)
\* both answer
Healthy == Provider(TRUE, 200, "https://p", WestAttrs, TRUE, 200,
                    Cluster(150, 1, 4000, 0))

\* registered without a host URI, behind a slow ledger
SlowLedger == Provider(TRUE, 7000, "", EnterpriseAttrs, FALSE, 0, NilCluster)

\* a new provider with GPUs: few leases, no free node, a slow answer
GpuAttrs ==
    [k \in {"region", "datacenter", "capabilities/gpu/vendor/nvidia"} |->
        IF k = "region" THEN "eu-west-1" ELSE IF k = "datacenter" THEN "fra1" ELSE "true"]
GpuNewcomer == Provider(TRUE, 3000, "https://p", GpuAttrs, TRUE, 1500,
                        Cluster(3, 0, 500, 1536 * 1024 * 1024))

ServiceProviders == {LedgerFails, StatusFails, Healthy}
FanOutProviders == {LedgerHangs, SlowLedger, Healthy}
AllProviders ==
    {LedgerHangs, LedgerFails, NoHost, StatusFails, StatusHangs, Healthy, SlowLedger}
SelectProviders == {LedgerFails, NoHost, StatusFails, Healthy, GpuNewcomer}

(* ------------------------------------------------------------------ state *)

VARIABLES
    now,         \* the clock, in ticks
    scenario,    \* what is explored: the callers, their address lists, the last
                 \* tick at which a call arrives, the last tick of the clock
    world,       \* address -> simulated provider
    config,      \* intelligence.Config
    sem,         \* Client.semaphore: weight held
    cache,       \* ProviderCache.data: address -> CachedProvider or NoEntry
    lastUpdate,  \* ProviderCache.lastUpdate
    call,        \* per caller: the running call, its fan-out and its result
    mutex,       \* ProviderCache.mutex: the goroutines holding it for reading,
                 \* the goroutine holding it for writing
    thread,      \* per goroutine of the lock-level view: where it stands in
                 \* its locked section and what it has read so far
    calc         \* one provider taken alone: the answers it gave, the record
                 \* GetProviderInfo makes of them, and that record scored

vars == <<now, scenario, world, config, sem, cache, lastUpdate, call, mutex, thread, calc>>

\* a goroutine of the fan-out before it runs
NewTask == [pc |-> "wait", info |-> NilInfo, start |-> 0, pdl |-> 0, sdl |-> 0]

IdleCall ==
    [pc |-> "idle", addrs |-> <<>>, results |-> <<>>, err |-> "",
     toFetch |-> <<>>, deadline |-> 0, slots |-> <<>>, tasks |-> <<>>,
     criteria |-> NoCriteria, selection |-> NoSelection]

(* ------------------------------------------------------------- the cache *)

\* CachedProvider whose ExpiresAt is the time of the write
CachedProviderNoTTL(info, t) == [Info |-> info, CachedAt |-> t, ExpiresAt |-> t]

\* &CachedProvider{Info: info, CachedAt: time.Now(), ExpiresAt: time.Now().Add(CacheTTL)}
CachedProvider(info, t) == [Info |-> info, CachedAt |-> t, ExpiresAt |-> t + CacheTTL]

\* IsFresh with !time.Now().After(cached.ExpiresAt) for the test
IsFreshInclusive(a) == cache[a] # NoEntry /\ now <= cache[a].ExpiresAt

\* cached, exists := s.cache.data[addr]; exists && time.Now().Before(cached.ExpiresAt)
IsFresh(a) == cache[a] # NoEntry /\ now < cache[a].ExpiresAt

NeedsFetch(a) == ~IsFresh(a)

\* CacheHits of a lookup that serves no record of a failed fetch
CacheHitsWithoutErrors(as) ==
    LET served(a) == IsFresh(a) /\ cache[a].Info.Error = ""
        h == SelectSeq(as, served)
    IN  [i \in 1..Len(h) |-> cache[h[i]].Info]

\* results after the lookup loop: the cached records, in the order of their addresses
CacheHits(as) ==
    LET h == SelectSeq(as, IsFresh)
    IN  [i \in 1..Len(h) |-> cache[h[i]].Info]

\* CacheMisses of a lookup that fetches every address again
CacheMissesAll(as) == as

\* toFetch after the lookup loop
CacheMisses(as) == SelectSeq(as, NeedsFetch)

\* UpdatedCache that keeps failed fetches out of the cache
UpdatedCacheSkipErrors(fresh) ==
    [a \in Addrs |->
        LET idx == {i \in 1..Len(fresh) : fresh[i].Address = a /\ fresh[i].Error = ""}
        IN  IF idx = {} THEN cache[a]
            ELSE CachedProvider(fresh[CHOOSE i \in idx : \A j \in idx : j <= i], now)]

\* the loop `for _, info := range freshData { s.cache.data[info.Address] = ... }`:
\* a later element replaces an earlier one of the same address
UpdatedCache(fresh) ==
    [a \in Addrs |->
        LET idx == {i \in 1..Len(fresh) : fresh[i].Address = a}
        IN  IF idx = {} THEN cache[a]
            ELSE CachedProvider(fresh[CHOOSE i \in idx : \A j \in idx : j <= i], now)]

\* Merge that forgets the cached records
MergeFreshOnly(results, fresh) == fresh

\* results = append(results, freshData...)
Merge(results, fresh) == results \o fresh

\* IsExpired with the comparison inverted
IsExpiredInverted(a) == cache[a] # NoEntry /\ now < cache[a].ExpiresAt

\* now.After(cached.ExpiresAt), the test of cleanupExpiredCache
IsExpired(a) == cache[a] # NoEntry /\ now > cache[a].ExpiresAt

(* ------------------------------------------------------------ the fan-out *)

Running(c) == call[c].pc = "fetch"

Tasks(c) == DOMAIN call[c].tasks

\* the context of the batch is done: its deadline has passed
CtxDone(c) == now >= call[c].deadline

AllDone(c) == \A i \in Tasks(c) : call[c].tasks[i].pc = "done"

\* GetMultipleProviderInfo up to wg.Wait(): the batch context, the results
\* array and one goroutine per address
Launch(st, as) ==
    [st EXCEPT !.toFetch = as,
               !.deadline = now + BatchTimeout,
               !.slots = [i \in 1..Len(as) |-> NilInfo],
               !.tasks = [i \in 1..Len(as) |-> NewTask]]

\* CanAcquire of a limiter that never fills up
CanAcquireUnbounded(c, i) ==
    /\ call[c].pc = "fetch" /\ i \in DOMAIN call[c].tasks
    /\ call[c].tasks[i].pc = "wait"
    /\ now < call[c].deadline

\* c.semaphore.Acquire(ctx, 1) can return nil: a slot is free. Whether it
\* does so when the context is done as well is left to the semaphore
\* package, which part_001 imports without fixing a version: its earlier
\* releases hand a freed slot to a waiter whose context is done ("If ctx is
\* already done, Acquire may still succeed without blocking"), its later
\* ones return the context's error. Both outcomes are possible here.
CanAcquire(c, i) ==
    /\ Running(c) /\ i \in Tasks(c)
    /\ call[c].tasks[i].pc = "wait"
    /\ sem < SemaphoreSize

\* c.semaphore.Acquire(ctx, 1) returns the context's error
AcquireGivesUp(c, i) ==
    /\ Running(c) /\ i \in Tasks(c)
    /\ call[c].tasks[i].pc = "wait"
    /\ CtxDone(c)

\* LimiterRecord without its error text
LimiterRecordNoError(address) == ErrorInfo(address, now, "")

\* the record of a task that got no slot
LimiterRecord(address) == ErrorInfo(address, now, "concurrency limit exceeded")

\* LedgerFailureRecord that scores the failed record like a partial one
LedgerFailurePartial(address, msg) ==
    [ErrorInfo(address, now, msg) EXCEPT !.HealthScore = 200]

\* the record GetMultipleProviderInfo builds when GetProviderInfo returns an error
LedgerFailureRecord(address, msg) == ErrorInfo(address, now, msg)

\* Finish that puts the record at the first index not yet written, as an
\* append in the order of completion would
FinishAppended(c, i, rec) ==
    LET free == {j \in DOMAIN call[c].slots : call[c].slots[j] = NilInfo}
        first == CHOOSE j \in free : \A k \in free : j <= k
    IN  [call EXCEPT ![c].slots[first] = rec,
                     ![c].tasks[i] = [NewTask EXCEPT !.pc = "done"]]

\* results[index] = ...; the goroutine ends (wg.Done)
Finish(c, i, rec) ==
    [call EXCEPT ![c].slots[i] = rec,
                 ![c].tasks[i] = [NewTask EXCEPT !.pc = "done"]]

\* ProviderDeadline of a context that is not derived from the batch's
ProviderDeadlineDetached(c) == now + ProviderTimeout

\* context.WithTimeout(ctx, 8*time.Second) in GetProviderInfo, ctx being the
\* batch's: the deadline is the earlier of the two
ProviderDeadline(c) == Min(now + ProviderTimeout, call[c].deadline)

\* c.semaphore.Acquire(ctx, 1) returns in the goroutine of index i. With a
\* slot (got), GetProviderInfo starts the ledger query under its own
\* context; with the context's error, the goroutine writes the limiter's
\* record and ends: no slot was taken, none is released
AcquireReturns(c, i) ==
    /\ \E got \in {g \in BOOLEAN : IF g THEN CanAcquire(c, i) ELSE AcquireGivesUp(c, i)} :
          IF got
          THEN /\ sem' = sem + 1
               /\ call' = [call EXCEPT ![c].tasks[i] =
                              [pc |-> "ledger",
                               info |-> NewInfo(call[c].toFetch[i], now),
                               start |-> now,
                               pdl |-> ProviderDeadline(c),
                               sdl |-> 0]]
          ELSE /\ sem' = sem
               /\ call' = Finish(c, i, LimiterRecord(call[c].toFetch[i]))
    /\ UNCHANGED <<now, scenario, world, config, cache, lastUpdate, mutex, thread, calc>>

\* queryBlockchainProvider has an answer, or its context is done
LedgerDue(c, i) ==
    /\ Running(c) /\ i \in Tasks(c)
    /\ call[c].tasks[i].pc = "ledger"
    /\ LET t == call[c].tasks[i]
           p == world[call[c].toFetch[i]]
       IN  now >= t.pdl \/ now >= t.start + (p.ledgerMs \div TickMs)

\* queryProviderStatus has an answer, or its context is done
StatusDue(c, i) ==
    /\ Running(c) /\ i \in Tasks(c)
    /\ call[c].tasks[i].pc = "status"
    /\ LET t == call[c].tasks[i]
           p == world[call[c].toFetch[i]]
       IN  now >= t.sdl \/ now >= t.start + (p.statusMs \div TickMs)

\* ticks after which the answer of a call of ms milliseconds is there
Ticks(ms) == ms \div TickMs

\* the call started at tick `start` is ended by its context (deadline dl),
\* not by an answer
CutOff(start, ms, dl) == start + Ticks(ms) >= dl

\* the tick at which the call returns
ReturnTick(start, ms, dl) == Min(start + Ticks(ms), dl)

\* time.Since(start) of a call that returns at tick t: what the answer took,
\* or the time to the deadline
Took(start, ms, dl, t) ==
    IF CutOff(start, ms, dl) THEN (t - start) * TickMs + 1 ELSE ms

\* LedgerError that lets the error of the ledger query pass
LedgerErrorIgnored(p, cut) == ""

\* err != nil after queryBlockchainProvider
LedgerError(p, cut) ==
    IF cut THEN "blockchain query failed: context deadline exceeded"
    ELSE IF ~p.ledgerOk THEN "blockchain query failed: failed to query provider"
    ELSE ""

\* err != nil after queryProviderStatus
StatusError(p, cut) ==
    IF cut THEN "failed to query status endpoint: context deadline exceeded"
    ELSE IF ~p.statusOk THEN "status endpoint returned 503"
    ELSE ""

\* GetProviderInfo, "Parse blockchain data": info after a ledger answer
Parsed(info, p) ==
    [info EXCEPT !.BlockchainQueryTime = p.ledgerMs,
                 !.HostURI = p.host,
                 !.Attributes = p.attrs]

\* WithoutStatus that takes the missing host URI for an error
WithoutStatusAsError(info) ==
    LET failed == [info EXCEPT !.Error = "no status endpoint"]
    IN  [failed EXCEPT !.HealthScore = calculatePartialHealthScore(failed)]

\* GetProviderInfo, the branch `else` of `if provider.HostURI != ""`
WithoutStatus(info) ==
    [info EXCEPT !.HealthScore = calculatePartialHealthScore(info)]

\* WithStatus that gives up the provider when the probe fails
WithStatusOrNothing(info, p, took, err) ==
    LET timed == [info EXCEPT !.StatusQueryTime = took, !.ResponseTime = took]
        answered == [timed EXCEPT !.ClusterInfo = p.cluster]
    IN  IF err # ""
        THEN ErrorInfo(info.Address, info.LastSeen, err)
        ELSE [answered EXCEPT !.HealthScore = calculateHealthScore(answered)]

\* GetProviderInfo from the return of queryProviderStatus on: `took` is
\* time.Since(statusStart), `err` the error of the probe ("" for none)
WithStatus(info, p, took, err) ==
    LET timed == [info EXCEPT !.StatusQueryTime = took, !.ResponseTime = took]
        failed == [timed EXCEPT !.Error = err]
        answered == [timed EXCEPT !.ClusterInfo = p.cluster]
    IN  IF err # ""
        THEN [failed EXCEPT !.HealthScore = calculatePartialHealthScore(failed)]
        ELSE [answered EXCEPT !.HealthScore = calculateHealthScore(answered)]

\* StatusDeadline of a context that is not derived from the provider's
StatusDeadlineDetached(pdl) == now + StatusTimeout

\* context.WithTimeout(ctx, 3*time.Second) for the status probe, ctx being the
\* provider's (deadline pdl): the deadline is the earlier of the two
StatusDeadline(pdl) == Min(now + StatusTimeout, pdl)

\* GetProviderInfo from the return of queryBlockchainProvider on, up to the
\* start of the status probe or to its return, then results[index] = info
\* and the deferred Release
LedgerReturns(c, i) ==
    /\ LedgerDue(c, i)
    /\ LET t == call[c].tasks[i]
           address == call[c].toFetch[i]
           p == world[address]
           err == LedgerError(p, CutOff(t.start, p.ledgerMs, t.pdl))
           parsed == Parsed(t.info, p)
       IN  IF err # ""
           THEN /\ call' = Finish(c, i, LedgerFailureRecord(address, err))
                /\ sem' = sem - 1
           ELSE IF p.host = ""
           THEN /\ call' = Finish(c, i, WithoutStatus(parsed))
                /\ sem' = sem - 1
           ELSE /\ call' = [call EXCEPT ![c].tasks[i] =
                               [pc |-> "status",
                                info |-> [parsed EXCEPT !.StatusEndpoint = p.host],
                                start |-> now,
                                pdl |-> t.pdl,
                                sdl |-> StatusDeadline(t.pdl)]]
                /\ sem' = sem
    /\ UNCHANGED <<now, scenario, world, config, cache, lastUpdate, mutex, thread, calc>>

\* StatusReturns of a goroutine that ends without its Release
StatusReturnsKeepsSlot(c, i) ==
    /\ StatusDue(c, i)
    /\ LET t == call[c].tasks[i]
           p == world[call[c].toFetch[i]]
       IN  call' = Finish(c, i,
                WithStatus(t.info, p, Took(t.start, p.statusMs, t.sdl, now),
                           StatusError(p, CutOff(t.start, p.statusMs, t.sdl))))
    /\ sem' = sem
    /\ UNCHANGED <<now, scenario, world, config, cache, lastUpdate, mutex, thread, calc>>

\* GetProviderInfo from the return of queryProviderStatus to its own return,
\* then results[index] = info and the deferred Release
StatusReturns(c, i) ==
    /\ StatusDue(c, i)
    /\ LET t == call[c].tasks[i]
           p == world[call[c].toFetch[i]]
       IN  call' = Finish(c, i,
                WithStatus(t.info, p, Took(t.start, p.statusMs, t.sdl, now),
                           StatusError(p, CutOff(t.start, p.statusMs, t.sdl))))
    /\ sem' = sem - 1
    /\ UNCHANGED <<now, scenario, world, config, cache, lastUpdate, mutex, thread, calc>>

(* ------------------------------------------------------------ the service *)

\* Service.GetProviderIntelligence from its entry to the call of
\* GetMultipleProviderInfo (or to its return when nothing is to fetch)
GetProviderIntelligence(c, as) ==
    /\ c \in scenario.callers /\ now <= scenario.arrivals
    /\ ~Running(c)
    /\ LET hits == CacheHits(as)
           misses == CacheMisses(as)
       IN  call' = [call EXCEPT ![c] =
               IF as = <<>>
               THEN [IdleCall EXCEPT !.pc = "done"]
               ELSE IF misses = <<>>
               THEN [IdleCall EXCEPT !.pc = "done", !.addrs = as, !.results = hits]
               ELSE Launch([IdleCall EXCEPT !.pc = "fetch", !.addrs = as,
                                            !.results = hits], misses)]
    /\ UNCHANGED <<now, scenario, world, config, sem, cache, lastUpdate, mutex, thread, calc>>

\* Service.SelectOptimalProvider with the criteria crit: its call of
\* GetProviderIntelligence up to the call of GetMultipleProviderInfo, or, when
\* nothing is to fetch, the whole of it
SelectOptimalProvider(c, as, crit) ==
    /\ c \in scenario.callers /\ now <= scenario.arrivals
    /\ ~Running(c)
    /\ crit # NoCriteria
    /\ LET hits == CacheHits(as)
           misses == CacheMisses(as)
           st == [IdleCall EXCEPT !.criteria = crit]
       IN  IF as = <<>>
           THEN \E sel \in Selections(<<>>, "", crit) :
                   call' = [call EXCEPT ![c] = [st EXCEPT !.pc = "done", !.selection = sel]]
           ELSE IF misses = <<>>
           THEN \E sel \in Selections(hits, "", crit) :
                   call' = [call EXCEPT ![c] =
                              [st EXCEPT !.pc = "done", !.addrs = as, !.results = hits,
                                         !.selection = sel]]
           ELSE call' = [call EXCEPT ![c] =
                           Launch([st EXCEPT !.pc = "fetch", !.addrs = as,
                                             !.results = hits], misses)]
    /\ UNCHANGED <<now, scenario, world, config, sem, cache, lastUpdate, mutex, thread, calc>>

\* handleToolCall: the request of a caller is for the tool
\* get_provider_intelligence (no criteria) or select_optimal_provider
handleToolCall(c, as, crit) ==
    IF crit = NoCriteria
    THEN GetProviderIntelligence(c, as)
    ELSE SelectOptimalProvider(c, as, crit)

\* the elements of a decoded JSON array: a string, or anything else (a
\* number, an object, null), each with what it holds
String(a) == [string |-> TRUE, value |-> a]
NotString(v) == [string |-> FALSE, value |-> v]

\* the arguments of a get_provider_intelligence request: provider_addresses
\* is missing, is no array, or is an array of elements
Missing == [present |-> FALSE, array |-> FALSE, elements |-> <<>>]
NotArray == [present |-> TRUE, array |-> FALSE, elements |-> <<>>]
Array(es) == [present |-> TRUE, array |-> TRUE, elements |-> es]

\* providerAddresses with every element of the array taken for a string
providerAddressesCoerced(addressList) ==
    [i \in 1..Len(addressList) |-> addressList[i].value]

\* the loop of handleGetProviderIntelligence over addressList: the elements
\* that are strings, in their order
providerAddresses(addressList) ==
    LET isString(e) == e.string
        strs == SelectSeq(addressList, isString)
    IN  [i \in 1..Len(strs) |-> strs[i].value]

\* the handler returns nil and fmt.Errorf(msg): nothing but the caller changes
Rejected(c, msg) ==
    /\ call' = [call EXCEPT ![c] = [IdleCall EXCEPT !.pc = "done", !.err = msg]]
    /\ UNCHANGED <<now, scenario, world, config, sem, cache, lastUpdate, mutex, thread, calc>>

\* MCPServer.handleGetProviderIntelligence up to the point where the service
\* function it calls waits for its fan-out (or returns)
handleGetProviderIntelligence(c, args) ==
    /\ c \in scenario.callers /\ now <= scenario.arrivals
    /\ ~Running(c)
    /\ IF ~args.present
       THEN Rejected(c, "provider_addresses argument is required")
       ELSE IF ~args.array
       THEN Rejected(c, "provider_addresses must be an array")
       ELSE IF Len(providerAddresses(args.elements)) = 0
       THEN Rejected(c, "no valid provider addresses provided")
       ELSE GetProviderIntelligence(c, providerAddresses(args.elements))

\* BatchError of a fan-out that fails as a whole when one task failed
BatchErrorFirst(fresh) ==
    IF \E i \in DOMAIN fresh : fresh[i].Error # "" /\ fresh[i].HealthScore = 0
    THEN "provider query failed" ELSE ""

\* the error GetMultipleProviderInfo returns with its results: `return results, nil`
BatchError(fresh) == ""

\* wg.Wait() returns and GetMultipleProviderInfo returns; the cache is
\* updated under the write lock and GetProviderIntelligence returns; a
\* SelectOptimalProvider that made the call scores, sorts and returns
Complete(c) ==
    /\ call[c].pc = "fetch"
    /\ AllDone(c)
    /\ LET fresh == call[c].slots
           err == BatchError(fresh)
       IN  IF err # ""
           THEN /\ \E sel \in Selections(call[c].results, err, call[c].criteria) :
                      call' = [call EXCEPT ![c].pc = "done", ![c].tasks = <<>>,
                                           ![c].err = "failed to fetch provider data",
                                           ![c].selection = sel]
                /\ UNCHANGED <<cache, lastUpdate>>
           ELSE /\ cache' = UpdatedCache(fresh)
                /\ lastUpdate' = now
                /\ \E sel \in Selections(Merge(call[c].results, fresh), "", call[c].criteria) :
                      call' = [call EXCEPT ![c].pc = "done",
                                           ![c].results = Merge(call[c].results, fresh),
                                           ![c].tasks = <<>>,
                                           ![c].selection = sel]
    /\ UNCHANGED <<now, scenario, world, config, sem, mutex, thread, calc>>

\* Sweep that stops after the first entry it deletes
SweepFirstOnly ==
    /\ cache' = [a \in Addrs |->
                    IF IsExpired(a) /\ \A b \in Addrs : IsExpired(b) => a <= b
                    THEN NoEntry ELSE cache[a]]
    /\ UNCHANGED <<now, scenario, world, config, sem, lastUpdate, call, mutex, thread, calc>>

\* Sweep that deletes every entry, expired or not
SweepAll ==
    /\ cache' = [a \in Addrs |-> NoEntry]
    /\ UNCHANGED <<now, scenario, world, config, sem, lastUpdate, call, mutex, thread, calc>>

\* cleanupExpiredCache, run by cacheCleanupLoop
Sweep ==
    /\ cache' = [a \in Addrs |-> IF IsExpired(a) THEN NoEntry ELSE cache[a]]
    /\ UNCHANGED <<now, scenario, world, config, sem, lastUpdate, call, mutex, thread, calc>>

\* a step of the program is due now
Due ==
    \/ \E c \in Calls : \E i \in Tasks(c) :
          CanAcquire(c, i) \/ AcquireGivesUp(c, i) \/ LedgerDue(c, i) \/ StatusDue(c, i)
    \/ \E c \in Calls : Running(c) /\ AllDone(c)

Tick ==
    /\ now < scenario.horizon
    /\ ~Due
    /\ now' = now + 1
    /\ UNCHANGED <<scenario, world, config, sem, cache, lastUpdate, call, mutex, thread, calc>>

(* ------------------------------------------- one provider taken alone *)

\* The tail of GetProviderInfo and scoreProviderWithBreakdown as functions of
\* what the ledger and the status endpoint answered, for answers at and around
\* every threshold of the scores.

NoProbe == [nil |-> TRUE]
NoScored == [nil |-> TRUE]

IdleCalc ==
    [pc |-> "idle", probe |-> NoProbe, info |-> NilInfo,
     criteria |-> [nil |-> TRUE], scored |-> NoScored]

\* what the ledger and the endpoint answered: the error of the ledger query
\* ("" for none), the record after "Parse blockchain data", and of the probe
\* the time it took, its error ("" for none) and the cluster it reported
Probe(lerr, parsed, took, err, cluster) ==
    [lerr |-> lerr, parsed |-> parsed, took |-> took, err |-> err, cluster |-> cluster]

\* GetProviderInfo from the return of queryBlockchainProvider to the record
\* that GetMultipleProviderInfo stores
Assessed(probe) ==
    IF probe.lerr # ""
    THEN LedgerFailureRecord(probe.parsed.Address, probe.lerr)
    ELSE IF probe.parsed.HostURI = ""
    THEN WithoutStatus(probe.parsed)
    ELSE WithStatus([probe.parsed EXCEPT !.StatusEndpoint = probe.parsed.HostURI],
                    [cluster |-> probe.cluster], probe.took, probe.err)

\* the record of the provider is made
Assess ==
    /\ calc.pc = "probed"
    /\ calc' = [calc EXCEPT !.pc = "assessed", !.info = Assessed(calc.probe)]
    /\ UNCHANGED <<now, scenario, world, config, sem, cache, lastUpdate, call, mutex, thread>>

\* the scoring loop of SelectOptimalProvider comes to the record
Score(criteria) ==
    /\ calc.pc = "assessed"
    /\ calc' = [calc EXCEPT !.pc = "scored",
                            !.criteria = criteria,
                            !.scored = ScoredProvider(calc.info, criteria)]
    /\ UNCHANGED <<now, scenario, world, config, sem, cache, lastUpdate, call, mutex, thread>>

(* ------------------------------------- the cache under its sync.RWMutex *)

\* The sections that GetProviderIntelligence, GetCacheStats and
\* cleanupExpiredCache run under ProviderCache.mutex, one statement a step, with
\* goroutines running at any speed. A store to the map is taken at its finest
\* grain: the fields of the new entry reach the slot one after the other.

\* the goroutines: the callers of GetProviderIntelligence, cacheCleanupLoop, and
\* a caller of GetCacheStats
Sweeper == NumCalls + 1
StatsReader == NumCalls + 2
Threads == Calls \cup {Sweeper, StatsReader}
NoThread == 0

\* the keys the goroutines work on
LockAddrs == 1..LockAddr

NoStats == [nil |-> TRUE]

IdleThread ==
    [pc |-> "idle", addresses |-> <<>>, i |-> 0, field |-> 0, results |-> <<>>,
     toFetch |-> <<>>, freshData |-> <<>>, pending |-> NoEntry, keys |-> {},
     t |-> ZeroTime, seen |-> <<>>, valid |-> 0, expired |-> 0, stats |-> NoStats]

\* RWMutex.RLock returns at once with every goroutine reading
RLockIgnoresWriter == TRUE

\* RWMutex.RLock returns: no goroutine holds the lock for writing
CanRLock == mutex.writer = NoThread

\* RWMutex.Lock returns: no goroutine holds the lock at all
CanLock == mutex.writer = NoThread /\ mutex.readers = {}

RLock(t) == mutex' = [mutex EXCEPT !.readers = @ \cup {t}]
RUnlock(t) == mutex' = [mutex EXCEPT !.readers = @ \ {t}]
Lock(t) == mutex' = [mutex EXCEPT !.writer = t]
Unlock(t) == mutex' = [mutex EXCEPT !.writer = NoThread]

\* the rest of the state, which these sections leave alone
LockFrame == UNCHANGED <<now, scenario, world, config, sem, call, calc>>

\* GetProviderIntelligence up to s.cache.mutex.RLock()
LookupBegin(t, as) ==
    /\ t \in Calls
    /\ thread[t].pc = "idle"
    /\ as # <<>>
    /\ CanRLock
    /\ RLock(t)
    /\ thread' = [thread EXCEPT ![t] = [IdleThread EXCEPT !.pc = "lookup",
                                           !.addresses = as, !.i = 1]]
    /\ UNCHANGED <<cache, lastUpdate>>
    /\ LockFrame

\* one round of the lookup loop
LookupRead(t) ==
    /\ thread[t].pc = "lookup"
    /\ thread[t].i <= Len(thread[t].addresses)
    /\ LET addr == thread[t].addresses[thread[t].i]
           cached == cache[addr]
       IN  thread' = [thread EXCEPT
                ![t].i = @ + 1,
                ![t].seen = Append(@, <<addr, cached>>),
                ![t].results = IF cached # NoEntry /\ now < cached.ExpiresAt
                               THEN Append(@, cached.Info) ELSE @,
                ![t].toFetch = IF cached # NoEntry /\ now < cached.ExpiresAt
                               THEN @ ELSE Append(@, addr)]
    /\ UNCHANGED <<cache, lastUpdate, mutex>>
    /\ LockFrame

\* s.cache.mutex.RUnlock(); with nothing to fetch the call returns
LookupEnd(t) ==
    /\ thread[t].pc = "lookup"
    /\ thread[t].i > Len(thread[t].addresses)
    /\ RUnlock(t)
    /\ thread' = [thread EXCEPT ![t] =
            IF thread[t].toFetch = <<>>
            THEN IdleThread
            ELSE [IdleThread EXCEPT !.pc = "fetch", !.results = thread[t].results,
                                    !.toFetch = thread[t].toFetch]]
    /\ UNCHANGED <<cache, lastUpdate>>
    /\ LockFrame

\* GetMultipleProviderInfo has returned one record an address, and
\* s.cache.mutex.Lock()
UpdateBegin(t) ==
    /\ thread[t].pc = "fetch"
    /\ CanLock
    /\ Lock(t)
    /\ thread' = [thread EXCEPT
            ![t].pc = "update", ![t].i = 1, ![t].field = 0,
            ![t].freshData = [j \in 1..Len(thread[t].toFetch) |->
                                 NewInfo(thread[t].toFetch[j], now)]]
    /\ UNCHANGED <<cache, lastUpdate>>
    /\ LockFrame

\* s.cache.data[info.Address] = &CachedProvider{...}: the literal is evaluated,
\* then its fields reach the slot one by one
UpdateWrite(t) ==
    /\ thread[t].pc = "update"
    /\ thread[t].i <= Len(thread[t].freshData)
    /\ LET info == thread[t].freshData[thread[t].i]
           slot == IF cache[info.Address] = NoEntry
                   THEN [Info |-> NilInfo, CachedAt |-> ZeroTime, ExpiresAt |-> ZeroTime]
                   ELSE cache[info.Address]
           new  == thread[t].pending
       IN  CASE thread[t].field = 0 ->
                  /\ thread' = [thread EXCEPT ![t].pending = CachedProvider(info, now),
                                              ![t].field = 1]
                  /\ UNCHANGED cache
            [] thread[t].field = 1 ->
                  /\ cache' = [cache EXCEPT ![info.Address] = [slot EXCEPT !.Info = new.Info]]
                  /\ thread' = [thread EXCEPT ![t].field = 2]
            [] thread[t].field = 2 ->
                  /\ cache' = [cache EXCEPT ![info.Address] = [slot EXCEPT !.CachedAt = new.CachedAt]]
                  /\ thread' = [thread EXCEPT ![t].field = 3]
            [] thread[t].field = 3 ->
                  /\ cache' = [cache EXCEPT ![info.Address] = [slot EXCEPT !.ExpiresAt = new.ExpiresAt]]
                  /\ thread' = [thread EXCEPT ![t].field = 0, ![t].i = @ + 1,
                                              ![t].pending = NoEntry]
    /\ UNCHANGED <<lastUpdate, mutex>>
    /\ LockFrame

\* s.cache.lastUpdate = time.Now()
UpdateStamp(t) ==
    /\ thread[t].pc = "update"
    /\ thread[t].i > Len(thread[t].freshData)
    /\ lastUpdate' = now
    /\ thread' = [thread EXCEPT ![t].pc = "stamped"]
    /\ UNCHANGED <<cache, mutex>>
    /\ LockFrame

\* s.cache.mutex.Unlock(), and the call returns
UpdateEnd(t) ==
    /\ thread[t].pc = "stamped"
    /\ Unlock(t)
    /\ thread' = [thread EXCEPT ![t] = IdleThread]
    /\ UNCHANGED <<cache, lastUpdate>>
    /\ LockFrame

\* the keys of s.cache.data
Keys == {a \in Addrs : cache[a] # NoEntry}

\* cleanupExpiredCache: s.cache.mutex.Lock(); now := time.Now()
CleanupBegin(t) ==
    /\ t = Sweeper
    /\ thread[t].pc = "idle"
    /\ CanLock
    /\ Lock(t)
    /\ thread' = [thread EXCEPT ![t] = [IdleThread EXCEPT !.pc = "cleanup",
                                           !.t = now, !.keys = Keys]]
    /\ UNCHANGED <<cache, lastUpdate>>
    /\ LockFrame

\* one round of the range over the map, in any order
CleanupStep(t) ==
    /\ thread[t].pc = "cleanup"
    /\ \E addr \in thread[t].keys :
          /\ cache' = [cache EXCEPT ![addr] =
                          IF thread[t].t > cache[addr].ExpiresAt THEN NoEntry ELSE @]
          /\ thread' = [thread EXCEPT ![t].keys = @ \ {addr}]
    /\ UNCHANGED <<lastUpdate, mutex>>
    /\ LockFrame

\* the deferred s.cache.mutex.Unlock()
CleanupEnd(t) ==
    /\ thread[t].pc = "cleanup"
    /\ thread[t].keys = {}
    /\ Unlock(t)
    /\ thread' = [thread EXCEPT ![t] = IdleThread]
    /\ UNCHANGED <<cache, lastUpdate>>
    /\ LockFrame

\* GetCacheStats: s.cache.mutex.RLock(), the stats map, now := time.Now()
StatsBegin(t) ==
    /\ t = StatsReader
    /\ thread[t].pc = "idle"
    /\ CanRLock
    /\ RLock(t)
    /\ thread' = [thread EXCEPT ![t] = [IdleThread EXCEPT
            !.pc = "stats", !.t = now, !.keys = Keys,
            !.stats = [entries |-> Cardinality(Keys), last_update |-> lastUpdate]]]
    /\ UNCHANGED <<cache, lastUpdate>>
    /\ LockFrame

\* StatsExpired with !now.Before(cached.ExpiresAt) for the test
StatsExpiredInclusive(cached, t) == t >= cached.ExpiresAt

\* now.After(cached.ExpiresAt) in GetCacheStats, now being t
StatsExpired(cached, t) == t > cached.ExpiresAt

\* one round of the range over the map, in any order
StatsStep(t) ==
    /\ thread[t].pc = "stats"
    /\ \E addr \in thread[t].keys :
          LET cached == cache[addr]
              gone == cached = NoEntry
              old == ~gone /\ StatsExpired(cached, thread[t].t)
          IN  thread' = [thread EXCEPT
                  ![t].keys = @ \ {addr},
                  ![t].seen = Append(@, <<addr, cached>>),
                  ![t].expired = IF old THEN @ + 1 ELSE @,
                  ![t].valid = IF gone \/ old THEN @ ELSE @ + 1]
    /\ UNCHANGED <<cache, lastUpdate, mutex>>
    /\ LockFrame

\* the deferred s.cache.mutex.RUnlock(), and the stats are returned
StatsEnd(t) ==
    /\ thread[t].pc = "stats"
    /\ thread[t].keys = {}
    /\ RUnlock(t)
    /\ thread' = [thread EXCEPT ![t] = [IdleThread EXCEPT !.stats =
            [entries |-> thread[t].stats.entries,
             last_update |-> thread[t].stats.last_update,
             valid_entries |-> thread[t].valid,
             expired_entries |-> thread[t].expired]]]
    /\ UNCHANGED <<cache, lastUpdate>>
    /\ LockFrame

\* time passes, whatever the goroutines do
LockTick ==
    /\ now < LockTime
    /\ now' = now + 1
    /\ UNCHANGED <<scenario, world, config, sem, cache, lastUpdate, call, mutex, thread, calc>>

(* --------------------------------------------------------- specifications *)

\* lists of unique addresses of at most n of the addresses S
UniqueLists(S, n) ==
    {as \in UNION {[1..k -> S] : k \in 0..n} :
        \A i, j \in DOMAIN as : as[i] = as[j] => i = j}

\* the address lists of the callers of Spec
ServiceLists == UniqueLists(ServiceAddrs, MaxBatch)

\* the address lists of the caller of SpecFanOut: all addresses, both ways
FanOutLists ==
    {[i \in 1..FanOut |-> i], [i \in 1..FanOut |-> FanOut + 1 - i]}

\* the selection_weights of the configuration file, priority reliability
DefaultWeights == Weights(400, 300, 200, 100)
DefaultCriteria == SelectionCriteria(DefaultWeights, "reliability")

Start ==
    /\ now = ZeroTime + 1
    /\ sem = 0
    /\ cache = [a \in Addrs |-> NoEntry]
    /\ lastUpdate = ZeroTime
    /\ call = [c \in Calls |-> IdleCall]
    /\ config \in [MaxConcurrent : 1..MaxConfigured]
    /\ mutex = [readers |-> {}, writer |-> NoThread]
    /\ thread = [t \in Threads |-> IdleThread]
    /\ calc = IdleCalc

\* concurrent callers, short lists, a short time
Init ==
    /\ Start
    /\ scenario = [callers |-> Calls, lists |-> ServiceLists,
                   arrivals |-> ServiceTime, horizon |-> ServiceTime,
                   criteria |-> {NoCriteria}]
    /\ world \in [Addrs -> ServiceProviders]
    /\ \A a \in Addrs \ ServiceAddrs : world[a] = Healthy

TaskStep ==
    \E c \in Calls : \E i \in 1..FanOut :
        \/ AcquireReturns(c, i)
        \/ LedgerReturns(c, i)
        \/ StatusReturns(c, i)

Next ==
    \/ \E c \in Calls : \E as \in scenario.lists : \E crit \in scenario.criteria :
          handleToolCall(c, as, crit)
    \/ TaskStep
    \/ \E c \in Calls : Complete(c)
    \/ Sweep
    \/ Tick

Spec == Init /\ [][Next]_vars

\* one caller, FanOut addresses, the clock runs past the batch deadline
InitFanOut ==
    /\ Start
    /\ scenario = [callers |-> {DirectCaller}, lists |-> FanOutLists,
                   arrivals |-> ZeroTime + 1, horizon |-> MaxTime,
                   criteria |-> {NoCriteria}]
    /\ world \in [Addrs -> FanOutProviders]

SpecFanOut == InitFanOut /\ [][Next]_vars

\* one caller, one address, every kind of provider
InitPipeline ==
    /\ Start
    /\ scenario = [callers |-> {DirectCaller}, lists |-> {<<1>>},
                   arrivals |-> MaxTime, horizon |-> MaxTime,
                   criteria |-> {NoCriteria}]
    /\ world \in [Addrs -> AllProviders]
    /\ \A a \in Addrs \ {1} : world[a] = Healthy

SpecPipeline == InitPipeline /\ [][Next]_vars

\* the criteria of the callers of SpecSelect
PerformanceCriteria == SelectionCriteria(Weights(0, 0, 1000, 0), "performance")
CostCriteria == SelectionCriteria(Weights(1000, 0, 0, 0), "cost")
\* weights that do not sum to 1, no priority, a budget
PlainCriteria == WithBudget(SelectionCriteria(Weights(2000, 500, 500, 0), ""), 50)
SelectCriteria ==
    {NoCriteria, DefaultCriteria, PerformanceCriteria, CostCriteria, PlainCriteria}

\* the address lists of the caller of SpecSelect: the first k addresses,
\* both ways, for every k up to MaxSelect
SelectLists ==
    UNION {{[i \in 1..k |-> i], [i \in 1..k |-> k + 1 - i]} : k \in 0..MaxSelect}

\* one caller that selects among up to MaxSelect providers of every kind
InitSelect ==
    /\ Start
    /\ scenario = [callers |-> {DirectCaller},
                   lists |-> SelectLists,
                   arrivals |-> ZeroTime + 1, horizon |-> SelectTime,
                   criteria |-> SelectCriteria]
    /\ world \in [Addrs -> SelectProviders]
    /\ \A a \in Addrs \ (1..MaxSelect) : world[a] = Healthy

SpecSelect == InitSelect /\ [][Next]_vars

\* the elements of the arrays of SpecTool: the service addresses as strings,
\* and a number
ToolElements == {String(a) : a \in ServiceAddrs} \cup {NotString(MaxAddr + 1)}

\* the arguments of the requests of SpecTool; no string comes twice
ToolArguments ==
    {Missing, NotArray}
    \cup {Array(es) : es \in
            {l \in UNION {[1..k -> ToolElements] : k \in 0..MaxArgs} :
                \A i, j \in DOMAIN l : (l[i].string /\ l[i] = l[j]) => i = j}}

\* one caller that sends get_provider_intelligence requests through the
\* handler and calls the service function as well
InitTool ==
    /\ Start
    /\ scenario = [callers |-> {DirectCaller}, lists |-> ServiceLists,
                   arrivals |-> ServiceTime, horizon |-> ServiceTime,
                   criteria |-> {NoCriteria}]
    /\ world \in [Addrs -> ServiceProviders]
    /\ \A a \in Addrs \ ServiceAddrs : world[a] = Healthy

NextTool ==
    \/ \E c \in Calls : \E args \in ToolArguments : handleGetProviderIntelligence(c, args)
    \/ \E c \in Calls : \E as \in scenario.lists : GetProviderIntelligence(c, as)
    \/ TaskStep
    \/ \E c \in Calls : Complete(c)
    \/ Sweep
    \/ Tick

SpecTool == InitTool /\ [][NextTool]_vars

\* the address lists of the callers of SpecLock: the first k keys
LockLists == {[i \in 1..k |-> i] : k \in LockAddrs}

\* the goroutines of the lock-level view, on an empty cache
InitLock ==
    /\ Start
    /\ scenario = [callers |-> {}, lists |-> LockLists,
                   arrivals |-> ZeroTime, horizon |-> LockTime,
                   criteria |-> {NoCriteria}]
    /\ world = [a \in Addrs |-> Healthy]

NextLock ==
    \/ \E t \in Threads : \E as \in scenario.lists : LookupBegin(t, as)
    \/ \E t \in Threads : LookupRead(t)
    \/ \E t \in Threads : LookupEnd(t)
    \/ \E t \in Threads : UpdateBegin(t)
    \/ \E t \in Threads : UpdateWrite(t)
    \/ \E t \in Threads : UpdateStamp(t)
    \/ \E t \in Threads : UpdateEnd(t)
    \/ \E t \in Threads : CleanupBegin(t)
    \/ \E t \in Threads : CleanupStep(t)
    \/ \E t \in Threads : CleanupEnd(t)
    \/ \E t \in Threads : StatsBegin(t)
    \/ \E t \in Threads : StatsStep(t)
    \/ \E t \in Threads : StatsEnd(t)
    \/ LockTick

SpecLock == InitLock /\ [][NextLock]_vars

\* the times a ledger query took, the times a probe took, the lease counts:
\* at, below and above the thresholds of the scores
CalcLedgerTimes == {1, 1999, 2000, 4999, 5000}
CalcStatusTimes == {1, 299, 300, 499, 500, 999, 1000, 1999, 2000, 2999, 3000}
CalcLeases == {0, 1, 5, 6, 10, 11, 19, 20, 21, 49, 50, 51, 100, 101}

\* the clusters a probe reports
CalcClusters ==
    {Cluster(l, n, r[1], r[2]) :
        l \in CalcLeases, n \in {0, 1},
        r \in {<<1000, 1024 * 1024 * 1024>>, <<1001, 1024 * 1024 * 1024 + 1>>}}

\* the attributes the ledger holds
CalcAttrs ==
    {NoAttrs,
     [k \in {"tier"} |-> "enterprise"],
     [k \in {"tier"} |-> "community"],
     [k \in {"capabilities/gpu/vendor/nvidia"} |-> "true"],
     [k \in {"region"} |-> "mars-1"],
     [k \in {"region", "datacenter"} |-> IF k = "region" THEN "us-west-1" ELSE "dc1"],
     [k \in {"tier", "capabilities/gpu/vendor/nvidia", "region", "datacenter"} |->
         CASE k = "tier" -> "enterprise"
           [] k = "region" -> "eu-west-1"
           [] OTHER -> "true"]}

\* the records after "Parse blockchain data", with and without a host URI
CalcParsed(host) ==
    {[NewInfo(1, ZeroTime + 1) EXCEPT !.BlockchainQueryTime = ms, !.HostURI = host,
                                      !.Attributes = attrs] :
        ms \in CalcLedgerTimes, attrs \in CalcAttrs}

\* the answers: the ledger failed; no host URI; the probe failed; the probe
\* answered
CalcProbes ==
    {Probe(LedgerError(LedgerFails, FALSE), NewInfo(1, ZeroTime + 1), 0, "", NilCluster)}
    \cup {Probe("", parsed, 0, "", NilCluster) : parsed \in CalcParsed("")}
    \cup {Probe("", parsed, took, StatusError(StatusFails, took >= StatusTimeout * TickMs),
                NilCluster) :
             parsed \in CalcParsed("https://p"), took \in {1, StatusTimeout * TickMs}}
    \cup {Probe("", parsed, took, "", cluster) :
             parsed \in CalcParsed("https://p"), took \in CalcStatusTimes,
             cluster \in CalcClusters}

\* the criteria the record is scored with: the priorities of the code, no
\* priority, and a priority the code does not know
LatencyCriteria == SelectionCriteria(DefaultWeights, "latency")
CalcCriteria ==
    {DefaultCriteria, PerformanceCriteria, CostCriteria, PlainCriteria, LatencyCriteria}

\* one provider has answered
InitCalc ==
    /\ now = ZeroTime + 1
    /\ sem = 0
    /\ cache = [a \in Addrs |-> NoEntry]
    /\ lastUpdate = ZeroTime
    /\ call = [c \in Calls |-> IdleCall]
    /\ config = [MaxConcurrent |-> 1]
    /\ mutex = [readers |-> {}, writer |-> NoThread]
    /\ thread = [t \in Threads |-> IdleThread]
    /\ scenario = [callers |-> {}, lists |-> {}, arrivals |-> ZeroTime,
                   horizon |-> ZeroTime, criteria |-> {NoCriteria}]
    /\ world = [a \in Addrs |-> Healthy]
    /\ calc \in {[IdleCalc EXCEPT !.pc = "probed", !.probe = probe] : probe \in CalcProbes}

NextCalc ==
    \/ Assess
    \/ \E criteria \in CalcCriteria : Score(criteria)

SpecCalc == InitCalc /\ [][NextCalc]_vars

\* the three together
SpecAll == (Init \/ InitFanOut \/ InitPipeline) /\ [][Next]_vars

(* ----------------------------------------------------------------- claims *)

Range(f) == {f[i] : i \in DOMAIN f}

Returned(c) == call[c].pc = "done"

\* the pipelines that hold a limiter slot
InFlight == {ci \in Calls \X (1..FanOut) :
                /\ ci[2] \in DOMAIN call[ci[1]].tasks
                /\ call[ci[1]].tasks[ci[2]].pc \in {"ledger", "status"}}

\* the step of caller c is the lookup of a new call
LookupStep(c) == call[c].pc # "fetch" /\ call'[c] # call[c]

\* the record of a pipeline for address a alone: it gets its slot at tick t,
\* in a batch with deadline d
PipelineRecord(a, t, d) ==
    LET p == world[a]
        pdl == Min(t + ProviderTimeout, d)
        lerr == LedgerError(p, CutOff(t, p.ledgerMs, pdl))
        lend == ReturnTick(t, p.ledgerMs, pdl)
        parsed == Parsed(NewInfo(a, t), p)
        sdl == Min(lend + StatusTimeout, pdl)
        send == ReturnTick(lend, p.statusMs, sdl)
    IN  IF lerr # "" THEN ErrorInfo(a, lend, lerr)
        ELSE IF p.host = "" THEN WithoutStatus(parsed)
        ELSE WithStatus([parsed EXCEPT !.StatusEndpoint = p.host], p,
                        Took(lend, p.statusMs, sdl, send),
                        StatusError(p, CutOff(lend, p.statusMs, sdl)))

\* C1: a returned GetProviderIntelligence call has result[i].Address =
\* addresses[i] for every index i (the addresses being unique). Refuted: the
\* cached records come first, the fetched ones after them.
C1_OrderPreserved ==
    \A c \in Calls : Returned(c) /\ call[c].err = "" =>
        /\ Len(call[c].results) = Len(call[c].addrs)
        /\ \A i \in DOMAIN call[c].addrs : call[c].results[i].Address = call[c].addrs[i]

\* C2: a returned call has exactly as many records as addresses were
\* requested, one for each requested address, whatever was cached and
\* whatever failed.
C2_AsManyAsRequested ==
    \A c \in Calls : Returned(c) =>
        /\ Len(call[c].results) = Len(call[c].addrs)
        /\ \A a \in Range(call[c].addrs) :
              Cardinality({j \in DOMAIN call[c].results : call[c].results[j].Address = a}) = 1

\* a call returned a cached record and a record of a failed fetch together
C2_Witness ==
    \E c \in Calls :
        /\ Returned(c) /\ Len(call[c].addrs) = 2 /\ Len(call[c].toFetch) = 1
        /\ \E j \in DOMAIN call[c].results :
              call[c].results[j].Error # "" /\ call[c].results[j].HealthScore = 0

\* the ledger query of address a fails whenever it is made
LedgerFailsFor(a) == ~world[a].ledgerOk

C3_Contained(c) ==
    /\ call[c].err = ""
    /\ \A j \in DOMAIN call[c].toFetch :
          LedgerFailsFor(call[c].toFetch[j]) =>
              /\ call[c].slots[j].Address = call[c].toFetch[j]
              /\ call[c].slots[j].HealthScore = 0
              /\ call[c].slots[j].Error # ""

\* C3 as claimed: in a batch where exactly one address fails its ledger
\* query, the call returns no error, that record has score 0 and an error,
\* and every other record is the record of its pipeline running undisturbed.
\* Refuted: the failing pipeline holds a limiter slot, a sibling gets its
\* slot later and is cut off by the batch deadline.
C3_SiblingsUnchanged ==
    \A c \in Calls :
        (/\ Returned(c)
         /\ Cardinality({j \in DOMAIN call[c].toFetch : LedgerFailsFor(call[c].toFetch[j])}) = 1)
        => /\ C3_Contained(c)
           /\ \A j \in DOMAIN call[c].toFetch :
                 ~LedgerFailsFor(call[c].toFetch[j]) =>
                     \E t \in 1..now :
                         call[c].slots[j] =
                            PipelineRecord(call[c].toFetch[j], t,
                                           t + BatchTimeout + ProviderTimeout)

\* C3, amended: a returned call has no error, the record of every address
\* whose ledger query fails has score 0 and an error, and every record is
\* the one its own pipeline builds from its own provider's answers, the
\* tick at which it got its slot and the batch deadline, or the limiter's
\* error record when it got no slot before the deadline.
C3_OwnPipelineOnly ==
    \A c \in Calls : Returned(c) /\ call[c].toFetch # <<>> =>
        /\ C3_Contained(c)
        /\ \A j \in DOMAIN call[c].toFetch :
              \/ \E t \in 1..now :
                    call[c].slots[j] =
                       PipelineRecord(call[c].toFetch[j], t, call[c].deadline)
              \/ call[c].slots[j] =
                    ErrorInfo(call[c].toFetch[j], call[c].deadline,
                              "concurrency limit exceeded")

\* a batch returned in which exactly one ledger query failed and a sibling
\* answered in full
C3_Witness ==
    \E c \in Calls :
        /\ Returned(c) /\ Len(call[c].toFetch) >= 2
        /\ Cardinality({j \in DOMAIN call[c].toFetch : LedgerFailsFor(call[c].toFetch[j])}) = 1
        /\ \E j \in DOMAIN call[c].toFetch :
              call[c].slots[j].Error = "" /\ call[c].slots[j].HealthScore > 0

\* address a has an entry that is valid now
C4_Valid(a) == cache[a] # NoEntry /\ now < cache[a].ExpiresAt

\* C4: an entry that is valid stays in the cache, sweeps or not, unless a
\* fetch of its address writes it anew; and a call that looks its address
\* up while it is valid fetches nothing for it and returns the very record
\* the entry holds.
C4_NoSecondFetch ==
    [][\A a \in Addrs : C4_Valid(a) =>
          /\ \/ cache'[a] = cache[a]
             \/ \E c \in Calls :
                   /\ call[c].pc = "fetch" /\ call'[c].pc = "done"
                   /\ a \in Range(call[c].toFetch)
          /\ \A c \in Calls :
                LookupStep(c) /\ a \in Range(call'[c].addrs) =>
                    /\ a \notin Range(call'[c].toFetch)
                    /\ cache[a].Info \in Range(call'[c].results)]_vars

\* a call was served, without a fetch, a record cached at an earlier tick
C4_Witness ==
    \E c \in Calls :
        /\ Returned(c) /\ call[c].addrs # <<>> /\ call[c].toFetch = <<>>
        /\ \E a \in Range(call[c].addrs) :
              /\ cache[a] # NoEntry
              /\ cache[a].Info \in Range(call[c].results)
              /\ cache[a].CachedAt < now /\ now < cache[a].ExpiresAt

\* C5: the lookup serves an address from the cache exactly when it has an
\* entry and the current time is before the entry's expiresAt; otherwise
\* the address goes to the needs-fetch list, swept or not.
C5_ServedIffValid ==
    [][\A c \in Calls : LookupStep(c) =>
          \A a \in Range(call'[c].addrs) :
              IF cache[a] # NoEntry /\ now < cache[a].ExpiresAt
              THEN /\ a \notin Range(call'[c].toFetch)
                   /\ cache[a].Info \in Range(call'[c].results)
              ELSE /\ a \in Range(call'[c].toFetch)
                   /\ \A j \in DOMAIN call'[c].results :
                         call'[c].results[j].Address # a]_vars

\* a call fetches an address whose entry, not swept, expires at this very tick
C5_Witness ==
    \E c \in Calls :
        /\ call[c].pc = "fetch"
        /\ \E a \in Range(call[c].toFetch) :
              /\ cache[a] # NoEntry /\ cache[a].ExpiresAt = now
              /\ \A i \in DOMAIN call[c].tasks : call[c].tasks[i].pc = "wait"

\* C6: the pipelines that hold a limiter slot, over all running calls, are
\* never more than the limiter's weight.
C6_LimiterBound ==
    /\ Cardinality(InFlight) <= SemaphoreSize
    /\ sem = Cardinality(InFlight)

\* the limiter is full with pipelines of two calls and a third task waits
C6_Witness ==
    /\ Cardinality(InFlight) = SemaphoreSize
    /\ \E x, y \in InFlight : x[1] # y[1]
    /\ \E c \in Calls : \E i \in DOMAIN call[c].tasks : call[c].tasks[i].pc = "wait"

\* C7: the pipelines in flight are never more than Config.MaxConcurrent.
\* Refuted: NewClient never reads the configuration.
C7_ConfiguredBound == Cardinality(InFlight) <= config.MaxConcurrent

C8_WritesErrorRecord(c, i) ==
    /\ call'[c].tasks[i].pc = "done"
    /\ call'[c].slots[i].Address = call[c].toFetch[i]
    /\ call'[c].slots[i].HealthScore = 0
    /\ call'[c].slots[i].Error # ""
    /\ call'[c].slots[i].ClusterInfo = NilCluster
    /\ \A k \in DOMAIN call[c].slots \ {i} : call'[c].slots[k] = call[c].slots[k]

C9_LedgerFailureRecord ==
    \A c \in Calls : \A j \in DOMAIN call[c].slots :
        (call[c].slots[j] # NilInfo /\ LedgerFailsFor(call[c].toFetch[j])) =>
            /\ call[c].slots[j].Address = call[c].toFetch[j]
            /\ call[c].slots[j].HealthScore = 0
            /\ call[c].slots[j].Error # ""
            /\ call[c].slots[j].ClusterInfo = NilCluster
            /\ call[c].slots[j].Attributes = NoAttrs

\* a ledger query failed by the provider's timeout, ProviderTimeout ticks
\* after it got its slot
C9_Witness ==
    \E c \in Calls : \E j \in DOMAIN call[c].slots :
        /\ call[c].slots[j] # NilInfo
        /\ world[call[c].toFetch[j]] = LedgerHangs
        /\ call[c].slots[j].LastSeen + BatchTimeout = call[c].deadline + ProviderTimeout

\* C10: a running fan-out never outlives its batch deadline: with every
\* ledger and status call returning by the deadline of its context, the
\* tasks and the join are over when the deadline is reached.
C10_ReturnsByDeadline ==
    \A c \in Calls : Running(c) => now <= call[c].deadline

\* at the deadline of a batch a task still waits and another is in flight
C10_Witness ==
    \E c \in Calls :
        /\ Running(c) /\ now = call[c].deadline
        /\ \E i \in DOMAIN call[c].tasks : call[c].tasks[i].pc = "wait"
        /\ \E i \in DOMAIN call[c].tasks : call[c].tasks[i].pc = "ledger"

\* the step of caller c is the return of a call that fetched
ReturnStep(c) == call[c].pc = "fetch" /\ call'[c].pc = "done"

\* C11: in the step in which a call that fetched returns, every record it
\* fetched, zero-score error records included, is in the cache under its
\* address, in place of whatever entry was there, with cachedAt the time of
\* the write and expiresAt that time plus CacheTTL, and is among the
\* records returned.
C11_CachedBeforeReturn ==
    [][\A c \in Calls : ReturnStep(c) /\ call'[c].err = "" =>
          \A j \in DOMAIN call[c].toFetch :
              LET a == call[c].toFetch[j]
              IN  /\ cache'[a] # NoEntry
                  /\ cache'[a].Info = call[c].slots[j]
                  /\ cache'[a].CachedAt = now
                  /\ cache'[a].ExpiresAt = now + CacheTTL
                  /\ cache'[a].Info \in Range(call'[c].results)
                  /\ lastUpdate' = now]_vars

\* a returned call wrote a zero-score error record over the entry that an
\* earlier call had written for the same address
C11_Witness ==
    \E c, d \in Calls : \E j \in DOMAIN call[c].toFetch : \E k \in DOMAIN call[d].toFetch :
        /\ c # d /\ Returned(c) /\ Returned(d)
        /\ call[c].toFetch[j] = call[d].toFetch[k]
        /\ call[c].slots[j] # call[d].slots[k]
        /\ call[c].slots[j].HealthScore = 0 /\ call[c].slots[j].Error # ""
        /\ cache[call[c].toFetch[j]] = CachedProvider(call[c].slots[j], now)

\* the records a caller has been returned, the records the fan-outs have
\* written and the records in the cache
AllRecords ==
    UNION {Range(call[c].results) : c \in {d \in Calls : Returned(d)}}
    \cup UNION {{r \in Range(call[c].slots) : r # NilInfo} : c \in Calls}
    \cup {cache[a].Info : a \in {b \in Addrs : cache[b] # NoEntry}}

\* C12: every record returned to a caller, written by a fan-out or stored
\* in the cache has a health score between 0 and 1 (0 and 1000 thousandths),
\* whichever path built it.
C12_HealthInUnitRange ==
    \A r \in AllRecords : r.HealthScore >= 0 /\ r.HealthScore <= 1000

\* one returned batch holds a record of the full-data path with score 1, a
\* record of the partial path and a zero-score error record
C12_Witness ==
    \E c \in Calls :
        /\ Returned(c)
        /\ \E r \in Range(call[c].results) :
              r.HealthScore = 1000 /\ r.ClusterInfo # NilCluster
        /\ \E r \in Range(call[c].results) :
              r.HealthScore \in 1..999 /\ r.ClusterInfo = NilCluster
        /\ \E r \in Range(call[c].results) : r.HealthScore = 0 /\ r.Error # ""

\* caller c has been returned a ProviderSelection
Selected(c) ==
    /\ Returned(c) /\ call[c].selection # NoSelection
    /\ call[c].selection.err = ""

\* the values a weight is raised to, in thousandths
WeightValues == {0, 250, 1000, 2000}

\* the weights w with one of them raised to v
Raised(w, v) ==
    (IF v >= w.Price THEN {[w EXCEPT !.Price = v]} ELSE {})
    \cup (IF v >= w.Reliability THEN {[w EXCEPT !.Reliability = v]} ELSE {})
    \cup (IF v >= w.Performance THEN {[w EXCEPT !.Performance = v]} ELSE {})
    \cup (IF v >= w.Geographic THEN {[w EXCEPT !.Geographic = v]} ELSE {})

\* C13: for every record a SelectOptimalProvider call scored, with the
\* priority of the call, the score the call computed is not above the score
\* of the same record under the same weights with any one of them raised.
C13_MonotoneInWeights ==
    \A c \in Calls : Selected(c) =>
        \A i \in DOMAIN call[c].selection.scoredProviders :
            LET sp == call[c].selection.scoredProviders[i]
                crit == call[c].criteria
            IN  /\ sp.Score = scoreProviderWithBreakdown(sp.Provider, crit)
                /\ \A v \in WeightValues : \A w \in Raised(crit.Weights, v) :
                      scoreProviderWithBreakdown(sp.Provider, [crit EXCEPT !.Weights = w])
                          >= sp.Score

\* a call scored a record with a health score above 0 and a higher
\* reliability weight gives that record a strictly higher score
C13_Witness ==
    \E c \in Calls :
        /\ Selected(c)
        /\ \E i \in DOMAIN call[c].selection.scoredProviders :
              LET sp == call[c].selection.scoredProviders[i]
                  crit == call[c].criteria
              IN  /\ sp.Provider.HealthScore > 0
                  /\ crit.Weights.Reliability < 1000
                  /\ scoreProviderWithBreakdown(sp.Provider,
                        [crit EXCEPT !.Weights.Reliability = 1000]) > sp.Score

\* the step is a run of cleanupExpiredCache that deleted something
SweepStep == cache' # cache /\ call' = call

\* C14: right after a run of cleanupExpiredCache, at the same time and with
\* no write in between, a second run deletes nothing: the cache it would
\* leave is the cache the first run left.
C14_SweepIdempotent ==
    [][SweepStep =>
          /\ now' = now
          /\ cache' = [a \in Addrs |-> IF IsExpired(a)' THEN NoEntry ELSE cache'[a]]]_vars

\* a sweep has deleted the entry of a fetched address and kept another entry
C14_Witness ==
    /\ \E c \in Calls : \E j \in DOMAIN call[c].toFetch :
          Returned(c) /\ cache[call[c].toFetch[j]] = NoEntry
    /\ \E b \in Addrs : cache[b] # NoEntry

\* C15: a run of cleanupExpiredCache at time t that changes the cache
\* leaves no entry whose expiresAt is earlier than t, deletes no entry with
\* t < expiresAt, adds no entry, changes none, and leaves lastUpdate alone.
C15_SweepRemovesExpiredOnly ==
    [][SweepStep =>
          /\ lastUpdate' = lastUpdate
          /\ \A a \in Addrs :
                /\ cache'[a] # NoEntry => cache'[a] = cache[a]
                /\ (cache[a] # NoEntry /\ cache[a].ExpiresAt < now) => cache'[a] = NoEntry
                /\ (cache[a] # NoEntry /\ now < cache[a].ExpiresAt) => cache'[a] = cache[a]]_vars

\* a sweep has deleted the entry of a fetched address while another entry
\* was valid, and that one is still there
C15_Witness ==
    \E c \in Calls : \E j \in DOMAIN call[c].toFetch : \E b \in Addrs :
        /\ Returned(c) /\ cache[call[c].toFetch[j]] = NoEntry
        /\ cache[b] # NoEntry /\ cache[b].CachedAt < now /\ now < cache[b].ExpiresAt

\* an entry as one store left it: the record of its key, with the two times of
\* one CachedProvider literal
Whole(addr, cached) ==
    \/ cached = NoEntry
    \/ /\ cached.Info # NilInfo
       /\ cached.Info.Address = addr
       /\ cached.Info.LastSeen <= cached.CachedAt
       /\ cached = CachedProvider(cached.Info, cached.CachedAt)

Reading(t) == thread[t].pc \in {"lookup", "stats"}
Writing(t) == thread[t].pc \in {"update", "stamped", "cleanup"}

\* C16: whatever the interleaving of GetProviderIntelligence, GetCacheStats and
\* the sweep, every entry a reader has looked at is absent or whole, a goroutine
\* in a writing section holds the lock alone, and a goroutine in a reading
\* section shares it with readers only.
C16_ReadersSeeWholeEntries ==
    /\ \A t \in Threads : \A j \in DOMAIN thread[t].seen :
          Whole(thread[t].seen[j][1], thread[t].seen[j][2])
    /\ \A t \in Threads : Writing(t) =>
          /\ mutex.writer = t
          /\ mutex.readers = {}
          /\ \A u \in Threads \ {t} : ~Writing(u) /\ ~Reading(u)
    /\ \A t \in Threads : Reading(t) => t \in mutex.readers /\ mutex.writer = NoThread

\* a reader holds the lock after looking at a stored entry, while a caller that
\* fetched a new record for the same key waits to store it
C16_Witness ==
    \E t \in Threads : \E w \in Calls \ {t} :
        /\ Reading(t)
        /\ thread[w].pc = "fetch"
        /\ \E j \in DOMAIN thread[t].seen :
              /\ thread[t].seen[j][2] # NoEntry
              /\ \E k \in DOMAIN thread[w].toFetch :
                    thread[w].toFetch[k] = thread[t].seen[j][1]

\* caller c has been returned from SelectOptimalProvider
SelectReturned(c) == Returned(c) /\ call[c].criteria # NoCriteria

\* C17: a returned SelectOptimalProvider call has the error "no provider data
\* available" exactly when GetProviderIntelligence gave it no error and no
\* record, which is exactly when its address list was empty; with no error
\* and one record or more it has a selection of one of the records, and no
\* error.
C17_NoDataIffNoRecords ==
    \A c \in Calls : SelectReturned(c) =>
        LET sel == call[c].selection
            none == call[c].err = "" /\ Len(call[c].results) = 0
        IN  /\ sel # NoSelection
            /\ (sel.err = "no provider data available") <=> none
            /\ none <=> call[c].addrs = <<>>
            /\ (call[c].err = "" /\ Len(call[c].results) >= 1) =>
                  /\ sel.err = ""
                  /\ \E i \in DOMAIN call[c].results :
                        call[c].results[i].Address = sel.SelectedProvider

\* a selection among two records or more that are all error records of
\* score 0
C17_Witness ==
    \E c \in Calls :
        /\ Selected(c)
        /\ Len(call[c].results) >= 2
        /\ \A i \in DOMAIN call[c].results :
              call[c].results[i].HealthScore = 0 /\ call[c].results[i].Error # ""

\* the one-to-one maps of 1..n onto itself
Reorderings(n) == {f \in [1..n -> 1..n] : \A i, j \in 1..n : f[i] = f[j] => i = j}

\* C18: the scoredProviders a selection was built from hold the records of
\* the batch, each once and each with its own score, in descending order of
\* score; the selected provider is the first of them, the returned Score is
\* its score, and no record of the batch has a higher score.
C18_RankedDescending ==
    \A c \in Calls : Selected(c) =>
        LET sel == call[c].selection
            ranked == sel.scoredProviders
            batch == call[c].results
            crit == call[c].criteria
        IN  /\ Len(ranked) = Len(batch)
            /\ \E f \in Reorderings(Len(batch)) :
                  \A i \in DOMAIN ranked :
                      ranked[i] = ScoredProvider(batch[f[i]], crit)
            /\ \A i, j \in DOMAIN ranked : i < j => ranked[i].Score >= ranked[j].Score
            /\ sel.SelectedProvider = ranked[1].Provider.Address
            /\ sel.Score = ranked[1].Score
            /\ \A i \in DOMAIN batch :
                  sel.Score >= scoreProviderWithBreakdown(batch[i], crit)

\* a selection among MaxSelect records whose winner is not the first record of
\* the batch and beats it, with two records of equal score behind it
C18_Witness ==
    \E c \in Calls :
        /\ Selected(c)
        /\ Len(call[c].results) = MaxSelect
        /\ call[c].selection.SelectedProvider # call[c].results[1].Address
        /\ call[c].selection.Score >
               scoreProviderWithBreakdown(call[c].results[1], call[c].criteria)
        /\ \E i, j \in DOMAIN call[c].selection.scoredProviders :
              /\ i < j
              /\ call[c].selection.scoredProviders[i].Score
                     = call[c].selection.scoredProviders[j].Score

\* the errors for malformed arguments
InvalidInput ==
    {"provider_addresses argument is required",
     "provider_addresses must be an array",
     "no valid provider addresses provided"}

\* the values of the strings of an array, in their order
RECURSIVE StringsOf(_)
StringsOf(es) ==
    IF es = <<>> THEN <<>>
    ELSE (IF Head(es).string THEN <<Head(es).value>> ELSE <<>>) \o StringsOf(Tail(es))

\* the call of c was turned down: it holds an invalid-input error and nothing
\* else, and the step touched neither the cache nor the limiter
TurnedDown(c) ==
    /\ call'[c].pc = "done"
    /\ call'[c].err \in InvalidInput
    /\ call'[c].addrs = <<>> /\ call'[c].results = <<>>
    /\ call'[c].toFetch = <<>> /\ call'[c].tasks = <<>>
    /\ cache' = cache /\ lastUpdate' = lastUpdate /\ sem' = sem

\* a get_provider_intelligence request is turned down when its array is
\* missing, no array, or without a string; otherwise the service function gets
\* the strings of the array, in their order
HandlerFilters(c) ==
    \A args \in ToolArguments : handleGetProviderIntelligence(c, args) =>
        IF ~args.present \/ ~args.array \/ StringsOf(args.elements) = <<>>
        THEN TurnedDown(c)
        ELSE /\ call'[c].addrs = StringsOf(args.elements)
             /\ call'[c].err \notin InvalidInput

IsProviderA(r) ==
    /\ r.Error = ""
    /\ r.StatusQueryTime = 200
    /\ r.ClusterInfo # NilCluster
    /\ r.ClusterInfo.ActiveLeases = 150
    /\ r.ClusterInfo.AvailableNodes >= 1
    /\ "region" \in DOMAIN r.Attributes
    /\ r.Attributes["region"] = "us-west-1"

\* provider B of the scenario: the data of the ledger only, with the tier
\* enterprise; the status probe failed
IsProviderB(r) ==
    /\ r.Error # ""
    /\ r.HostURI # ""
    /\ r.BlockchainQueryTime > 0
    /\ r.ClusterInfo = NilCluster
    /\ "tier" \in DOMAIN r.Attributes
    /\ r.Attributes["tier"] = "enterprise"

\* C20: a selection with the weights price 0.4, reliability 0.3, performance
\* 0.2, geographic 0.1 and the priority reliability between a record of
\* provider A and a record of provider B: the health score of A is 1.0, the
\* score of A is above the score of B, A is selected with its score, and the
\* reasoning has the line of the 150 active leases and the line of the region
\* us-west-1.
C20_ScenarioAWins ==
    \A c \in Calls :
        (/\ Selected(c)
         /\ call[c].criteria = DefaultCriteria
         /\ Len(call[c].results) = 2) =>
            \A i, j \in DOMAIN call[c].results :
                LET a == call[c].results[i]
                    b == call[c].results[j]
                    sel == call[c].selection
                IN  (IsProviderA(a) /\ IsProviderB(b)) =>
                        /\ a.HealthScore = 1000
                        /\ scoreProviderWithBreakdown(a, DefaultCriteria)
                               > scoreProviderWithBreakdown(b, DefaultCriteria)
                        /\ sel.SelectedProvider = a.Address
                        /\ sel.Score = scoreProviderWithBreakdown(a, DefaultCriteria)
                        /\ \E k \in DOMAIN sel.Reasoning :
                              sel.Reasoning[k] = <<"active leases", 150>>
                        /\ \E k \in DOMAIN sel.Reasoning :
                              sel.Reasoning[k] = <<"Located in region", "us-west-1">>

\* the selection of the scenario has been made, with B asked about first
C20_Witness ==
    \E c \in Calls :
        /\ Selected(c)
        /\ call[c].criteria = DefaultCriteria
        /\ Len(call[c].results) = 2
        /\ IsProviderB(call[c].results[1])
        /\ IsProviderA(call[c].results[2])
        /\ call[c].addrs[1] = call[c].results[1].Address

\* the records that the pipelines of the running and returned fan-outs have
\* written, each with the address it was asked for
Written ==
    UNION {{<<call[c].toFetch[j], call[c].slots[j]>> :
               j \in {k \in DOMAIN call[c].slots : call[c].slots[k] # NilInfo}} :
           c \in Calls}

\* the status probe of provider p cannot succeed: the endpoint answers with an
\* error, or not within StatusTimeout
ProbeFails(p) == ~p.statusOk \/ Ticks(p.statusMs) >= StatusTimeout

\* the pipeline that wrote r got its slot and an answer of the ledger
LedgerAnswered(r, p) ==
    /\ p.ledgerOk
    /\ r.Error # "concurrency limit exceeded"
    /\ r.Error \notin {LedgerError(p, TRUE), LedgerError(p, FALSE)} \ {""}

\* C21: the record of a pipeline whose ledger query answered with a host URI
\* and whose status probe failed keeps the host URI and the attributes of the
\* ledger, has no cluster snapshot, has the error of the probe as its error,
\* and has the partial health score, which is above 0.
C21_ProbeFailureKeepsLedgerData ==
    \A w \in Written :
        LET p == world[w[1]]
            r == w[2]
        IN  (LedgerAnswered(r, p) /\ p.host # "" /\ ProbeFails(p)) =>
                /\ r.Address = w[1]
                /\ r.HostURI = p.host /\ r.HostURI # ""
                /\ r.Attributes = p.attrs
                /\ r.ClusterInfo = NilCluster
                /\ r.Error \in {StatusError(p, TRUE), StatusError(p, FALSE)}
                /\ r.Error # ""
                /\ r.HealthScore = calculatePartialHealthScore(r)
                /\ r.HealthScore > 0

\* a probe that ended at its timeout, for a provider with the tier
\* enterprise or a region
C21_Witness ==
    \E w \in Written :
        /\ w[2].StatusEndpoint # ""
        /\ w[2].Error = StatusError(world[w[1]], TRUE)
        /\ w[2].Attributes # NoAttrs
        /\ w[2].StatusQueryTime >= StatusTimeout * TickMs

\* the parts of the partial health score that the answer of the ledger gives,
\* in thousandths
LedgerCredit(r) ==
    200
    + (IF r.BlockchainQueryTime > 0 /\ r.BlockchainQueryTime < 2000 THEN 100 ELSE 0)
    + (IF "tier" \in DOMAIN r.Attributes /\ r.Attributes["tier"] = "enterprise"
       THEN 100 ELSE 0)
    + (IF "capabilities/gpu/vendor/nvidia" \in DOMAIN r.Attributes THEN 50 ELSE 0)
    + (IF "region" \in DOMAIN r.Attributes THEN 50 ELSE 0)

\* C22: no pipeline is ever in a status probe for a provider whose host URI is
\* empty, and the record of a pipeline whose ledger query answered with an
\* empty host URI has no error, no cluster snapshot, no status endpoint, the
\* status times 0, and the partial health score with nothing taken off.
C22_NoHostNoProbe ==
    /\ \A c \in Calls : \A i \in Tasks(c) :
          call[c].tasks[i].pc = "status" => world[call[c].toFetch[i]].host # ""
    /\ \A w \in Written :
          LET p == world[w[1]]
              r == w[2]
          IN  (LedgerAnswered(r, p) /\ p.host = "") =>
                  /\ r.Address = w[1]
                  /\ r.Error = ""
                  /\ r.HostURI = "" /\ r.StatusEndpoint = ""
                  /\ r.Attributes = p.attrs
                  /\ r.ClusterInfo = NilCluster
                  /\ r.StatusQueryTime = 0 /\ r.ResponseTime = 0
                  /\ r.HealthScore = LedgerCredit(r)

\* a record without host URI, of a provider with the tier enterprise behind a
\* ledger that took 2 s or more: its score is 0.3
C22_Witness ==
    \E w \in Written :
        /\ world[w[1]].ledgerOk /\ world[w[1]].host = ""
        /\ w[2].Error = ""
        /\ w[2].BlockchainQueryTime >= 2000
        /\ w[2].HealthScore = 300

\* the keys that the running GetCacheStats has counted
Counted == Keys \ thread[StatsReader].keys

\* GetCacheStats has the lock and its counts add up: every key of the map is
\* counted once, as valid or as expired, or is still to come
StatsAddUp ==
    /\ thread[StatsReader].pc = "stats" =>
          thread[StatsReader].stats.entries
              = thread[StatsReader].valid + thread[StatsReader].expired
                + Cardinality(thread[StatsReader].keys)
    /\ (thread[StatsReader].pc = "idle" /\ thread[StatsReader].stats # NoStats) =>
          thread[StatsReader].stats.entries
              = thread[StatsReader].stats.valid_entries
                + thread[StatsReader].stats.expired_entries

Scaled(w, k) ==
    Weights(w.Price * k, w.Reliability * k, w.Performance * k, w.Geographic * k)

\* the factors the weights are multiplied by, and the budgets tried
ScaleFactors == {0, 2, 3}
Budgets == {0, 1, 50, 100000}

\* C24: the score of every record a SelectOptimalProvider call scored is
\* health x reliability + performance x performance weight + geographic x
\* geographic weight + price x price weight + priority bonus, with the
\* weights of the call as they are; with all four weights multiplied by k the
\* part without the bonus is multiplied by k and the bonus stays; the score
\* is the same under every budget.
C24_LiteralWeightedSum ==
    \A c \in Calls : Selected(c) =>
        \A i \in DOMAIN call[c].selection.scoredProviders :
            LET sp == call[c].selection.scoredProviders[i]
                r == sp.Provider
                crit == call[c].criteria
                w == crit.Weights
                bonus == calculatePriorityBonus(r, crit.Priority)
            IN  /\ sp.Breakdown.PriorityBonus = bonus
                /\ sp.Score = r.HealthScore * w.Reliability
                              + calculatePerformanceScore(r) * w.Performance
                              + calculateGeographicScore(r) * w.Geographic
                              + calculatePriceScore(r) * w.Price
                              + bonus * 1000
                /\ \A k \in ScaleFactors :
                      LET scaled == [crit EXCEPT !.Weights = Scaled(w, k)]
                      IN  /\ scoreProviderWithBreakdown(r, scaled) - bonus * 1000
                                = k * (sp.Score - bonus * 1000)
                          /\ Breakdown(r, scaled).PriorityBonus = bonus
                /\ \A b \in Budgets :
                      scoreProviderWithBreakdown(r, WithBudget(crit, b)) = sp.Score

\* a call with weights of sum 3 and a budget has scored a record of health
\* score 1.0 above 1
C24_Witness ==
    \E c \in Calls :
        /\ Selected(c)
        /\ call[c].criteria = PlainCriteria
        /\ \E i \in DOMAIN call[c].selection.scoredProviders :
              /\ call[c].selection.scoredProviders[i].Provider.HealthScore = 1000
              /\ call[c].selection.scoredProviders[i].Score > 1000 * 1000

IsAssessed == calc.pc \in {"assessed", "scored"}

\* the probe of the provider taken alone was made and answered
ProbeAnswered ==
    /\ calc.probe.lerr = "" /\ calc.probe.parsed.HostURI # "" /\ calc.probe.err = ""

\* the band of a status response time (ms), of a count of active leases and
\* of a count of available nodes, in thousandths
TimeBand(ms) ==
    CASE ms < 500 -> 300
      [] ms >= 500 /\ ms < 1000 -> 250
      [] ms >= 1000 /\ ms < 2000 -> 200
      [] ms >= 2000 /\ ms < 3000 -> 150
      [] OTHER -> 100

LeaseBand(leases) ==
    CASE leases > 100 -> 400
      [] leases <= 100 /\ leases > 50 -> 350
      [] leases <= 50 /\ leases > 20 -> 300
      [] leases <= 20 /\ leases > 10 -> 250
      [] leases <= 10 /\ leases > 5 -> 200
      [] leases <= 5 /\ leases > 0 -> 100
      [] OTHER -> 0

NodeBand(nodes) == IF nodes >= 1 THEN 100 ELSE 0

\* C26: the health score of a record whose probe answered is 0.20 plus the
\* band of the time the probe took, the band of the active leases and the
\* band of the available nodes of the cluster the probe reported.
C26_FullPathBands ==
    (IsAssessed /\ ProbeAnswered) =>
        /\ calc.info.ClusterInfo = calc.probe.cluster
        /\ calc.info.StatusQueryTime = calc.probe.took
        /\ calc.info.HealthScore
              = 200 + TimeBand(calc.probe.took)
                    + LeaseBand(calc.probe.cluster.ActiveLeases)
                    + NodeBand(calc.probe.cluster.AvailableNodes)

\* a probe that took exactly 500 ms and reported exactly 100 leases and a
\* free node: the score is 0.20 + 0.25 + 0.35 + 0.10
C26_Witness ==
    /\ IsAssessed /\ ProbeAnswered
    /\ calc.probe.took = 500
    /\ calc.probe.cluster.ActiveLeases = 100
    /\ calc.probe.cluster.AvailableNodes = 1
    /\ calc.info.HealthScore = 900

\* the ledger answered and the record is made without an answer of the
\* probe: the host URI is empty, or the probe failed
PartialPath ==
    /\ calc.probe.lerr = ""
    /\ calc.probe.parsed.HostURI = "" \/ calc.probe.err # ""

\* 1000 if the condition holds, in thousandths
Indicator(cond) == IF cond THEN 1000 ELSE 0

\* C27: the health score of a record made without an answer of the probe is
\* max(0, 0.20 + 0.10 [ledger query under 2 s] + 0.10 [tier = enterprise]
\* + 0.05 [GPU attribute] + 0.05 [region attribute] - 0.10 [error]), and lies
\* between 0.10 and 0.50.
C27_PartialPathSum ==
    (IsAssessed /\ PartialPath) =>
        LET attrs == calc.probe.parsed.Attributes
            sum == 200 * 1000
                   + 100 * Indicator(calc.probe.parsed.BlockchainQueryTime < 2000)
                   + 100 * Indicator("tier" \in DOMAIN attrs /\ attrs["tier"] = "enterprise")
                   + 50 * Indicator("capabilities/gpu/vendor/nvidia" \in DOMAIN attrs)
                   + 50 * Indicator("region" \in DOMAIN attrs)
                   - 100 * Indicator(calc.info.Error # "")
        IN  /\ calc.info.Error = calc.probe.err
            /\ calc.info.HealthScore * 1000 = (IF sum < 0 THEN 0 ELSE sum)
            /\ calc.info.HealthScore >= 100
            /\ calc.info.HealthScore <= 500

\* a failed probe of a provider with a tier other than enterprise behind a
\* slow ledger: the score is 0.10; and the record is scored
C27_Witness ==
    /\ calc.pc = "scored" /\ PartialPath
    /\ calc.probe.err # ""
    /\ "tier" \in DOMAIN calc.info.Attributes
    /\ calc.info.Attributes["tier"] # "enterprise"
    /\ calc.info.BlockchainQueryTime >= 2000
    /\ calc.info.HealthScore = 100

\* the record has been scored
IsScored == calc.pc = "scored"

\* a score in thousandths lies between 0 and 1
InUnit(x) == x >= 0 /\ x <= 1000

\* the bonus of a metric above (below) the two thresholds of its label
Above(metric, high, low) ==
    IF metric > high THEN 200 ELSE IF metric > low THEN 100 ELSE 0

Below(metric, low, high) ==
    IF metric < low THEN 200 ELSE IF metric < high THEN 100 ELSE 0

\* C28: every component of the breakdown lies between 0 and 1; the priority
\* bonus is 0, 0.1 or 0.2, is 0 for a label other than reliability,
\* performance and cost, and for one of these is fixed by the label's own
\* metric: the health score, the status response time, the active leases.
C28_ComponentsInUnit ==
    IsScored =>
        LET b == calc.scored.Breakdown
            info == calc.info
            priority == calc.criteria.Priority
        IN  /\ InUnit(b.HealthScore) /\ b.HealthScore = info.HealthScore
            /\ InUnit(b.PerformanceScore)
            /\ InUnit(b.GeographicScore)
            /\ InUnit(b.PriceScore)
            /\ b.PriorityBonus \in {0, 100, 200}
            /\ priority \notin {"reliability", "performance", "cost"}
                  => b.PriorityBonus = 0
            /\ priority = "reliability"
                  => b.PriorityBonus = Above(info.HealthScore, 800, 600)
            /\ priority = "performance"
                  => b.PriorityBonus
                        = (IF info.StatusQueryTime > 0
                           THEN Below(info.StatusQueryTime, 500, 1000) ELSE 0)
            /\ priority = "cost"
                  => b.PriorityBonus
                        = (IF info.ClusterInfo # NilCluster
                           THEN Below(info.ClusterInfo.ActiveLeases, 20, 50) ELSE 0)

\* a record of the first region with a datacenter attribute, scored under a
\* label that is not recognized: the geographic score is 1 and the bonus 0
C28_Witness ==
    /\ IsScored
    /\ calc.criteria.Priority = "latency"
    /\ "datacenter" \in DOMAIN calc.info.Attributes
    /\ calc.scored.Breakdown.GeographicScore = 1000
    /\ calc.scored.Breakdown.PerformanceScore = 1000
    /\ calc.scored.Breakdown.PriorityBonus = 0

\* the steps of the price score by active leases, highest first, as pairs
\* <<most leases of the step, score in thousandths>>; above the last step
\* the score is PriceFloor
PriceSteps == <<<<5, 600>>, <<20, 550>>, <<50, 500>>, <<100, 450>>>>
PriceFloor == 400
PriceDefault == 500
GpuCost == 100

\* the price score of a cluster with the active leases, before the GPU term
RECURSIVE PriceOfLeases(_, _)
PriceOfLeases(leases, i) ==
    IF i > Len(PriceSteps) THEN PriceFloor
    ELSE IF leases <= PriceSteps[i][1] THEN PriceSteps[i][2]
    ELSE PriceOfLeases(leases, i + 1)

\* C29: the price score is 0.6 for at most 5 active leases, then 0.55, 0.5,
\* 0.45, and 0.4 above 100, so it does not increase with the leases; it is
\* 0.5 without cluster information; the GPU attribute lowers it by exactly
\* 0.1; it lies between 0 and 1.
C29_PriceSteps ==
    IsScored =>
        LET info == calc.info
            price == calc.scored.Breakdown.PriceScore
            gpu == IF "capabilities/gpu/vendor/nvidia" \in DOMAIN info.Attributes
                   THEN GpuCost ELSE 0
            base == price + gpu
        IN  /\ InUnit(price)
            /\ info.ClusterInfo = NilCluster => base = PriceDefault
            /\ info.ClusterInfo # NilCluster
                  => /\ base = PriceOfLeases(info.ClusterInfo.ActiveLeases, 1)
                     /\ \A more \in CalcLeases :
                           more >= info.ClusterInfo.ActiveLeases
                              => PriceOfLeases(more, 1) <= base

\* a GPU provider with more than 100 active leases is scored: 0.4 - 0.1
C29_Witness ==
    /\ IsScored
    /\ calc.info.ClusterInfo # NilCluster
    /\ calc.info.ClusterInfo.ActiveLeases > 100
    /\ "capabilities/gpu/vendor/nvidia" \in DOMAIN calc.info.Attributes
    /\ calc.scored.Breakdown.PriceScore = 300

\* the selection of c was made among more than one candidate
Contested(c) == Selected(c) /\ Len(call[c].selection.scoredProviders) > 1

\* scoreDiff := best.Score - secondBest.Score, in millionths
ScoreDiff(c) ==
    call[c].selection.scoredProviders[1].Score
    - call[c].selection.scoredProviders[2].Score

\* the absolute margin written in the reasoning is best - runnerUp, not
\* negative
AbsoluteMargin(c) ==
    /\ ScoreDiff(c) >= 0
    /\ \E k \in DOMAIN call[c].selection.Reasoning :
          /\ call[c].selection.Reasoning[k][1] = "Score advantage over #2"
          /\ call[c].selection.Reasoning[k][2] = ScoreDiff(c)

\* the relative margin written in the reasoning is the quotient of the
\* absolute margin by the score of the runner-up, which is not 0
RelativeMargin(c) ==
    LET second == call[c].selection.scoredProviders[2].Score
    IN  /\ second # 0
        /\ \E k \in DOMAIN call[c].selection.Reasoning :
              call[c].selection.Reasoning[k]
                 = <<"Score advantage over #2", ScoreDiff(c),
                     (ScoreDiff(c) * 100) \div second>>

\* C30: whenever the selection has more than one candidate, the margin over
\* the runner-up in the reasoning is well defined as an absolute difference
\* best - runnerUp >= 0 and as a relative difference
\* (best - runnerUp) / runnerUp, whatever the batch and the weights.
C30_MarginWellDefined ==
    \A c \in Calls : Contested(c) => (AbsoluteMargin(c) /\ RelativeMargin(c))

\* a contested selection whose runner-up has the score 0
C30_RunnerUpZero ==
    \E c \in Calls :
        /\ Contested(c)
        /\ call[c].selection.scoredProviders[2].Score = 0

\* GetMultipleProviderInfo of caller c has returned its results
FannedOut(c) == Returned(c) /\ call[c].toFetch # <<>>

\* C31: when GetMultipleProviderInfo returns, whatever the order in which
\* its tasks completed, the result is as long as the addresses, no element is
\* nil and result[i].Address = addresses[i]; while it runs, index i is
\* written by task i alone, at its end.
C31_ReassembledInOrder ==
    \A c \in Calls :
        /\ FannedOut(c) =>
              /\ Len(call[c].slots) = Len(call[c].toFetch)
              /\ \A i \in DOMAIN call[c].slots :
                    /\ call[c].slots[i] # NilInfo
                    /\ call[c].slots[i].Address = call[c].toFetch[i]
        /\ Running(c) =>
              \A i \in Tasks(c) :
                 IF call[c].tasks[i].pc = "done"
                 THEN /\ call[c].slots[i] # NilInfo
                      /\ call[c].slots[i].Address = call[c].toFetch[i]
                 ELSE call[c].slots[i] = NilInfo

\* a returned batch whose first task ended after its second: the first
\* record is of a ledger query cut off by its deadline, the second of a
\* provider that answered before
C31_Witness ==
    \E c \in Calls :
        /\ FannedOut(c) /\ Len(call[c].slots) >= 2
        /\ call[c].slots[1].Error # "" /\ call[c].slots[1].HealthScore = 0
        /\ call[c].slots[2].Error = ""
        /\ call[c].slots[1].LastSeen > call[c].slots[2].LastSeen + 1

\* where the pipeline of index i of a caller in the state st stands: "none"
\* when the caller has no such task
StepOf(st, i) == IF i \in DOMAIN st.tasks THEN st.tasks[i].pc ELSE "none"

\* the pipeline of index i of caller c enters the step pc
Enters(c, i, pc) == StepOf(call[c], i) # pc /\ StepOf(call'[c], i) = pc

\* the ledger query of the task has answered in time, without error
LedgerSucceeded(c, i) ==
    LET t == call[c].tasks[i]
        p == world[call[c].toFetch[i]]
    IN  p.ledgerOk /\ ~CutOff(t.start, p.ledgerMs, t.pdl)

\* C32: within one pipeline the ledger query starts only once the limiter
\* slot is acquired; the status probe starts only once the ledger query has
\* returned without error and with a host URI, never after a failed ledger
\* query; the health score is computed only once the probe has returned or
\* been skipped; the slot is released only once the record is complete.
C32_StepsInOrder ==
    [][/\ \A c \in scenario.callers : \A i \in Tasks(c) :
             /\ Enters(c, i, "ledger") =>
                   /\ StepOf(call[c], i) = "wait"
                   /\ sem' = sem + 1
                   /\ call'[c].tasks[i].info.HealthScore = 0
             /\ Enters(c, i, "status") =>
                   /\ StepOf(call[c], i) = "ledger"
                   /\ LedgerSucceeded(c, i)
                   /\ world[call[c].toFetch[i]].host # ""
                   /\ call'[c].tasks[i].info.HealthScore = 0
                   /\ sem' = sem
             /\ (Enters(c, i, "done") /\ call'[c].slots[i].HealthScore > 0) =>
                   \/ StepOf(call[c], i) = "status"
                   \/ /\ StepOf(call[c], i) = "ledger"
                      /\ LedgerSucceeded(c, i)
                      /\ world[call[c].toFetch[i]].host = ""
             /\ (Enters(c, i, "done") /\ StepOf(call[c], i) = "ledger"
                 /\ ~LedgerSucceeded(c, i)) =>
                   /\ call'[c].slots[i].StatusEndpoint = ""
                   /\ call'[c].slots[i].StatusQueryTime = 0
                   /\ call'[c].slots[i].ClusterInfo = NilCluster
             /\ (StepOf(call[c], i) \in {"ledger", "status"}
                 /\ StepOf(call'[c], i) \notin {"ledger", "status"}) =>
                   /\ sem' = sem - 1
                   /\ StepOf(call'[c], i) = "done"
                   /\ call'[c].slots[i] # NilInfo
       /\ sem' < sem =>
             \E c \in scenario.callers : \E i \in Tasks(c) :
                /\ StepOf(call[c], i) \in {"ledger", "status"}
                /\ Enters(c, i, "done")
                /\ call'[c].slots[i] # NilInfo
    ]_vars

\* a returned batch with a record of an answered probe and a record of a
\* failed ledger query, every slot given back
C32_Witness ==
    \E c \in Calls :
        /\ FannedOut(c) /\ sem = 0
        /\ \E i \in DOMAIN call[c].slots :
              /\ call[c].slots[i].ClusterInfo # NilCluster
              /\ call[c].slots[i].HealthScore > 0
        /\ \E j \in DOMAIN call[c].slots :
              /\ call[c].slots[j].Error # "" /\ call[c].slots[j].HealthScore = 0
              /\ call[c].slots[j].StatusEndpoint = ""

\* the tasks that have taken a slot and not yet given it back
Holders ==
    UNION {{<<c, i>> : i \in {j \in Tasks(c) : StepOf(call[c], j) \in {"ledger", "status"}}}
           : c \in Calls}

\* the slots of the limiter that are free
FreeSlots == SemaphoreSize - sem

\* C33: the slots of the limiter are conserved: the slots held are those of
\* the tasks between their Acquire and their Release, held and free slots
\* make the limiter's weight in every state, a task that got no slot, or
\* that has ended on any path, holds none, and when no batch is running
\* every slot is free.
C33_SlotsConserved ==
    /\ sem = Cardinality(Holders)
    /\ FreeSlots >= 0 /\ FreeSlots <= SemaphoreSize
    /\ Cardinality(Holders) + FreeSlots = SemaphoreSize
    /\ \A c \in Calls : \A i \in Tasks(c) :
          StepOf(call[c], i) \in {"wait", "done"} => <<c, i>> \notin Holders
    /\ (\A c \in Calls : ~Running(c)) => FreeSlots = SemaphoreSize

\* no batch runs, every slot is free, and the batch that returned has a
\* record of a task that got no slot, a record of a ledger query cut off by
\* its deadline, and a record of a provider that answered
C33_Witness ==
    /\ \A c \in Calls : ~Running(c)
    /\ FreeSlots = SemaphoreSize
    /\ \E c \in Calls :
          /\ FannedOut(c)
          /\ \E i \in DOMAIN call[c].slots :
                call[c].slots[i].Error = "concurrency limit exceeded"
          /\ \E i \in DOMAIN call[c].slots :
                call[c].slots[i].Error
                   = "blockchain query failed: context deadline exceeded"
          /\ \E i \in DOMAIN call[c].slots :
                call[c].slots[i].HealthScore > 0

\* the step is the lookup of a call of c whose addresses are all fresh in
\* the cache
AllFreshLookup(c) ==
    /\ LookupStep(c)
    /\ call'[c].addrs # <<>>
    /\ \A a \in Range(call'[c].addrs) : IsFresh(a)

\* C34: a GetProviderIntelligence call whose addresses are all fresh in the
\* cache changes nothing: no entry is added, replaced or removed, lastUpdate
\* keeps its value, no limiter slot is taken, and no ledger or status query
\* is started; the call returns the cached records.
C34_FreshCallChangesNothing ==
    [][\A c \in Calls :
          AllFreshLookup(c) =>
             /\ cache' = cache
             /\ lastUpdate' = lastUpdate
             /\ sem' = sem
             /\ call'[c].pc = "done" /\ call'[c].err = ""
             /\ call'[c].toFetch = <<>> /\ call'[c].tasks = <<>>
             /\ call'[c].slots = <<>>
             /\ call'[c].results
                   = [i \in DOMAIN call'[c].addrs |-> cache[call'[c].addrs[i]].Info]
             /\ \A d \in Calls \ {c} : call'[d] = call[d]
    ]_vars

\* a call of two addresses was served from the cache alone, at a later tick
\* than the last write of the cache, while the other caller's fan-out runs
C34_Witness ==
    \E c \in Calls :
        /\ Returned(c) /\ Len(call[c].addrs) = 2 /\ call[c].toFetch = <<>>
        /\ Len(call[c].results) = 2
        /\ lastUpdate < now
        /\ \E d \in Calls \ {c} : Running(d)

\* C35: in every reachable state of the cache each entry is stored under
\* the address of its record, its record is not nil, and its expiresAt is
\* not earlier than its cachedAt plus CacheTTL, after any fetches, fetches
\* of the same address by concurrent calls, and sweeps.
C35_EntriesWellFormed ==
    \A a \in Addrs :
        cache[a] # NoEntry =>
            /\ cache[a].Info # NilInfo
            /\ cache[a].Info.Address = a
            /\ cache[a].ExpiresAt >= cache[a].CachedAt + CacheTTL
            /\ cache[a].CachedAt <= lastUpdate

\* two calls have both fetched and stored the same address, the entry is
\* that of the last write of the cache, and the entry of another address
\* that was fetched is no longer there: it has been swept
C35_Witness ==
    \E c, d \in Calls : \E a, b \in Addrs :
        /\ c # d /\ Returned(c) /\ Returned(d) /\ a # b
        /\ a \in Range(call[c].toFetch) /\ a \in Range(call[d].toFetch)
        /\ cache[a] # NoEntry /\ cache[a].CachedAt = lastUpdate
        /\ cache[a].Info \in Range(call[c].slots)
        /\ b \in Range(call[d].toFetch) /\ cache[b] = NoEntry

\* a zero-score error record: of a failed ledger query or of a task that
\* got no limiter slot
ZeroScoreError(r) == r # NilInfo /\ r.HealthScore = 0 /\ r.Error # ""

\* the cache holds a zero-score error record for address a
ErrorEntry(a) == cache[a] # NoEntry /\ ZeroScoreError(cache[a].Info)

\* a pipeline of a fan-out that has not returned yet has produced a
\* zero-score error record for address a
ErrorProduced(a) ==
    \E d \in Calls : \E j \in Tasks(d) :
        /\ Running(d) /\ call[d].toFetch[j] = a
        /\ ZeroScoreError(call[d].slots[j])

\* the time at which the running call of d made its lookup
LookupTime(d) == call[d].deadline - BatchTimeout

\* C36 as claimed: once a pipeline has produced a zero-score error record
\* for an address, every call for that address made before the expiresAt of
\* its entry is served that record and does not query the ledger again.
\* Refuted: the record is in the cache only when its whole batch has
\* returned; a call made before that fetches the address again.
C36_ServedOnceProduced ==
    [][\A c \in Calls : LookupStep(c) =>
          \A a \in Range(call'[c].addrs) :
              (ErrorProduced(a) \/ (ErrorEntry(a) /\ now < cache[a].ExpiresAt))
                  => a \notin Range(call'[c].toFetch)]_vars

\* C36: a zero-score error record is cached like any other: written with
\* expiresAt = write time + CacheTTL when its batch returns; from then on a
\* call made before expiresAt is served that record and fetches nothing for
\* the address, the entry being replaced in that time only by the write of a
\* call that had made its lookup before the entry was written; a call made
\* at or after expiresAt fetches the address again.
C36_ErrorsCachedOnReturn ==
    [][/\ \A c \in Calls : ReturnStep(c) /\ call'[c].err = "" =>
             \A j \in DOMAIN call[c].toFetch :
                 ZeroScoreError(call[c].slots[j]) =>
                     cache'[call[c].toFetch[j]]
                        = [Info |-> call[c].slots[j], CachedAt |-> now,
                           ExpiresAt |-> now + CacheTTL]
       /\ \A a \in Addrs : ErrorEntry(a) =>
             /\ now < cache[a].ExpiresAt =>
                   /\ \/ cache'[a] = cache[a]
                      \/ \E d \in Calls :
                            /\ ReturnStep(d)
                            /\ a \in Range(call[d].toFetch)
                            /\ LookupTime(d) <= cache[a].CachedAt
                   /\ \A c \in Calls :
                         (LookupStep(c) /\ a \in Range(call'[c].addrs)) =>
                             /\ a \notin Range(call'[c].toFetch)
                             /\ cache[a].Info \in Range(call'[c].results)
             /\ now >= cache[a].ExpiresAt =>
                   \A c \in Calls :
                       (LookupStep(c) /\ a \in Range(call'[c].addrs)) =>
                           /\ a \in Range(call'[c].toFetch)
                           /\ cache[a].Info \notin Range(call'[c].results)
    ]_vars

\* a call was served from the cache alone the zero-score error record that
\* an earlier fetch had stored, and the entry has not expired
C36_Witness ==
    \E c \in Calls :
        /\ Returned(c) /\ call[c].addrs # <<>> /\ call[c].toFetch = <<>>
        /\ \E a \in Range(call[c].addrs) :
              /\ ErrorEntry(a)
              /\ cache[a].Info \in Range(call[c].results)
              /\ cache[a].CachedAt < now /\ now < cache[a].ExpiresAt

\* a record of a provider whose ledger query and status probe both succeeded
FullRecord(r) == r # NilInfo /\ r.Error = "" /\ r.ClusterInfo # NilCluster

\* the record SelectOptimalProvider selected for caller c
Winner(c) == call[c].selection.scoredProviders[1]

\* the selection of c is a zero-score error record although its batch has a
\* record of a provider whose ledger query and status probe both succeeded
ErrorRecordWins(c) ==
    /\ Selected(c)
    /\ ZeroScoreError(Winner(c).Provider)
    /\ \E i \in DOMAIN call[c].results : FullRecord(call[c].results[i])

\* C37 as claimed: SelectOptimalProvider never selects a record with a
\* ledger-failure or limiter error when the batch has a record of a provider
\* whose ledger query and status probe both succeeded, whatever the weights
\* (not all zero) and the priority. Refuted: the error record gets the
\* neutral price score 0.5, a busy or GPU provider less.
C37_NeverSelectsErrorRecord ==
    \A c \in Calls :
        LET w == call[c].criteria.Weights
        IN  (Selected(c)
             /\ w.Price + w.Reliability + w.Performance + w.Geographic > 0)
                => ~ErrorRecordWins(c)

\* C37: a record with a ledger-failure or limiter error scores
\* 0.5 W.geographic + 0.5 W.price and no bonus; when it is selected although
\* the batch has a record of a provider whose ledger query and status probe
\* both succeeded, then for each such record either the price weight is
\* positive and its price score is below 0.5, or the two scores are equal
\* and the weights of reliability and performance are both 0.
C37_ErrorRecordWinsOnPriceOnly ==
    \A c \in Calls :
        Selected(c) =>
            LET w == call[c].criteria.Weights
                scored == call[c].selection.scoredProviders
            IN  /\ \A k \in DOMAIN scored :
                      ZeroScoreError(scored[k].Provider) =>
                          /\ scored[k].Score = 500 * w.Geographic + 500 * w.Price
                          /\ scored[k].Breakdown.PriorityBonus = 0
                /\ ErrorRecordWins(c) =>
                      \A k \in DOMAIN scored :
                          FullRecord(scored[k].Provider) =>
                              \/ /\ w.Price > 0
                                 /\ scored[k].Breakdown.PriceScore < 500
                              \/ /\ scored[k].Score = Winner(c).Score
                                 /\ w.Reliability = 0 /\ w.Performance = 0

\* with the price weight alone and the priority cost, the record of a failed
\* ledger query is selected over the record of a provider with 150 active
\* leases that answered both queries
C37_Witness ==
    \E c \in Calls :
        /\ ErrorRecordWins(c)
        /\ call[c].criteria = CostCriteria
        /\ Winner(c).Score = 500 * 1000
        /\ \E k \in DOMAIN call[c].selection.scoredProviders :
              /\ FullRecord(call[c].selection.scoredProviders[k].Provider)
              /\ call[c].selection.scoredProviders[k].Provider.HealthScore = 1000
              /\ call[c].selection.scoredProviders[k].Score = 400 * 1000

====
